---- MODULE Spec2Model ----
(***************************************************************************)
(* A model of the tetrolith game engine (pkg/game/game.go): the match      *)
(* manager (GameStateManager) with its Loop goroutine, the two boards      *)
(* (GameBoard) with their loop goroutines, the channels between them, the  *)
(* per-board mutex, and the callers of Guess and TryDestroy.               *)
(*                                                                         *)
(* Time is abstracted: an armed timer may fire at any moment.  A step of   *)
(* a goroutine that cannot block is taken atomically with the steps        *)
(* before it; every blocking point of the code (a channel send that finds  *)
(* the buffer full, a Lock that finds the mutex held) is a program counter *)
(* value of the goroutine, so that a goroutine stuck there is a state.     *)
(*                                                                         *)
(* The callers are taken as the command-line client sets them up:          *)
(* gs.stateOut is unbuffered and its receiver is waiting, so a send on it  *)
(* is one step with the receive.  A Guess call for a board whose loop is   *)
(* running is one step with the receive of the guess by the loop (its send *)
(* on guessEvents commutes with every step before that receive); guesses   *)
(* pile up in guessEvents only once the loop has left.  Calls of Guess and *)
(* TryDestroy come one at a time, as under the session manager's mutex.    *)
(* NewGameStateManager does not make the channel gs.stop, so it is nil: a  *)
(* send on it never completes and the case <-gs.stop of Loop is never      *)
(* ready.  TryDestroy therefore never gets past gs.Stop(), Quit() is never *)
(* called, and the cases <-gs.stop and <-gb.stop have no step in the       *)
(* model.                                                                  *)
(***************************************************************************)
EXTENDS Integers, Sequences, FiniteSets, TLC

(***************************************************************************)
(* Bounds of the model.  The program's NumSlots is 16, TotalNumQuestions   *)
(* is 50 and the channel capacities are 5 (guessEvents, oppQueueChan) and  *)
(* 8 (addToOppQueue); the model keeps the code and scales the sizes.       *)
(***************************************************************************)
NumSlots == 2
TotalNumQuestions == 3
Rounds == 1
GuessEventsCap == 1
OppQueueChanCap == 1
AddToOppQueueCap == 1
MaxSeed == 0

\* Program constants.
StateChangeCap == 1
NumPlayers == 2

PoolSize == TotalNumQuestions * Rounds
Players == 0 .. (NumPlayers - 1)
SlotIdx == 0 .. (NumSlots - 1)

(***************************************************************************)
(* The state of the program.                                               *)
(***************************************************************************)
VARIABLES
    Status,         \* gs.Status
    timer,          \* gs.timer: TRUE while the countdown timer is armed
    Boards,         \* gs.Boards: <<>> until start() allocates the boards
    AnswerMap,      \* Question.AnswerMap of every Question of the round
    QuestionOffset, \* gs.QuestionOffset
    randSeed,       \* gs.randSeed
    SearchCriteria, \* gs.SearchCriteria: how many alphagrams the search finds
    exitedboards,   \* gs.exitedboards
    stateChange,    \* gs.stateChange: number of buffered notifications
    addToOppQueue,  \* gs.addToOppQueue: the buffered Questions
    stateOut,       \* gs.stateOut: the snapshot its receiver took last
    mpc,            \* where the Loop goroutine of the manager is
    mlocal,         \* its locals: the Question in hand, a board index
    bpc,            \* where each board's loop goroutine is
    blocal,         \* its locals: fullySolvedSlot, stateChanged / startTimer
    guessCall,      \* per player: a Guess call blocked on guessEvents
    dpc,            \* where the caller of TryDestroy is
    attacksSent,    \* history: the Questions each board sent to the router
    attacksPlaced,  \* history: the attacks addOppQueue put on each board
    Sessions,       \* s.Sessions: the GameSession of every ID handed out
    SessionsForPlayer, \* s.SessionsForPlayer: the ID of the user's session
    managers,       \* the GameStateManagers that Join made
    smu             \* the SessionManager's mutex and the call that holds it

vars == <<Status, timer, Boards, AnswerMap, QuestionOffset, randSeed,
          SearchCriteria, exitedboards, stateChange, addToOppQueue,
          stateOut, mpc, mlocal, bpc, blocal, guessCall, dpc, attacksSent,
          attacksPlaced, Sessions, SessionsForPlayer, managers, smu>>

\* The state of the SessionManager.
sessionVars == <<Sessions, SessionsForPlayer, managers, smu>>

\* The state of the match.
matchVars == <<Status, timer, Boards, AnswerMap, QuestionOffset, randSeed,
               SearchCriteria, exitedboards, stateChange, addToOppQueue,
               stateOut, mpc, mlocal, bpc, blocal, guessCall, dpc, attacksSent,
               attacksPlaced>>

(***************************************************************************)
(* Strings are sequences of code points.                                   *)
(***************************************************************************)
Space == <<32>>

ToLowerRune(c) == IF c >= 65 /\ c <= 90 THEN c + 32 ELSE c

ToLower(w) == [i \in 1 .. Len(w) |-> ToLowerRune(w[i])]

RECURSIVE TrimLeft(_)
TrimLeft(w) == IF Len(w) > 0 /\ <<w[1]>> = Space THEN TrimLeft(Tail(w)) ELSE w

RECURSIVE TrimRight(_)
TrimRight(w) ==
    IF Len(w) > 0 /\ <<w[Len(w)]>> = Space
    THEN TrimRight(SubSeq(w, 1, Len(w) - 1))
    ELSE w

TrimSpace(w) == TrimRight(TrimLeft(w))

RECURSIVE InsertRune(_, _)
InsertRune(c, s) ==
    IF Len(s) = 0 THEN <<c>>
    ELSE IF c < s[1] THEN <<c>> \o s
    ELSE <<s[1]>> \o InsertRune(c, Tail(s))

RECURSIVE alphagrammize(_)
alphagrammize(w) ==
    IF Len(w) = 0 THEN <<>> ELSE InsertRune(w[1], alphagrammize(Tail(w)))

(***************************************************************************)
(* The question provider's answer: alphagram i has the letters of the      *)
(* i-th pair of the upper-case alphabet; every fourth one has two answers  *)
(* and the others one.  Search returns the same list at every call.        *)
(***************************************************************************)
PoolLetters(i) == <<63 + 2 * i, 64 + 2 * i>>

PoolAlphagram(i) ==
    [Alphagram |-> PoolLetters(i),
     Words |-> IF i % 4 = 1
               THEN {PoolLetters(i), <<64 + 2 * i, 63 + 2 * i>>}
               ELSE {<<64 + 2 * i, 63 + 2 * i>>}]

SearchResponse == [i \in 1 .. SearchCriteria |-> PoolAlphagram(i)]

\* randomizer.Shuffle with the match's seed: a permutation fixed by the seed.
Shuffle(list, seed) ==
    [i \in 1 .. Len(list) |-> list[((i - 1 + seed) % Len(list)) + 1]]

(***************************************************************************)
(* Questions.  A *Question is a pointer: the model keeps the identity and  *)
(* the owner in the value that moves between collections, and the          *)
(* AnswerMap of every Question in one variable indexed by identity.        *)
(***************************************************************************)
Nil == [id |-> 0, Whose |-> -1]

populateMapOf(alph) == {ToLower(w) : w \in alph.Words}

(***************************************************************************)
(* The words a player may type: every answer and every wrong anagram of    *)
(* the pool in lower case, and one answer in upper case with blanks        *)
(* around it.                                                              *)
(***************************************************************************)
GuessInputs ==
    UNION {{ToLower(PoolLetters(i)), ToLower(<<64 + 2 * i, 63 + 2 * i>>)} :
            i \in 1 .. SearchCriteria}
    \cup {Space \o <<66, 65>> \o Space}

(***************************************************************************)
(* The board.                                                              *)
(***************************************************************************)
NoStateChange == [ChangeType |-> "", PayloadNum |-> 0, PayloadNum2 |-> 0]

StateChange(type, num, num2) ==
    [ChangeType |-> type, PayloadNum |-> num, PayloadNum2 |-> num2]

\* The fields of a GameBoard.  Timer is "off", or the duration it was armed
\* with ("full" is TickDuration, "quarter" is TickDuration / 4);
\* OppQueueTimer is TRUE while armed; guessEvents is the number of buffered
\* guesses (the word of a guess is drawn when the loop receives it: no code
\* reads a guess while it is buffered); mu is "free" or names the holder.
newGameBoard(idx) ==
    [Idx |-> idx,
     Slots |-> [i \in SlotIdx |-> Nil],
     Queue |-> <<>>,
     OppQueue |-> <<>>,
     fallerPos |-> -1,
     status |-> "PieceDropping",
     Dead |-> FALSE,
     Won |-> FALSE,
     quitting |-> FALSE,
     oppqueueReady |-> FALSE,
     Solved |-> 0,
     LastStateChange |-> NoStateChange,
     Timer |-> "off",
     OppQueueTimer |-> FALSE,
     guessEvents |-> 0,
     oppQueueChan |-> <<>>,
     mu |-> "free"]

Swap(slots, i, j) == [slots EXCEPT ![i] = slots[j], ![j] = slots[i]]

topOfStack(gb) ==
    IF \E i \in SlotIdx : gb.Slots[i] # Nil /\ i # gb.fallerPos
    THEN CHOOSE i \in SlotIdx :
            /\ gb.Slots[i] # Nil /\ i # gb.fallerPos
            /\ \A j \in SlotIdx : (gb.Slots[j] # Nil /\ j # gb.fallerPos) => i <= j
    ELSE NumSlots

\* A release that leaves the released Question on the player queue.
LetGoKeepsQueue(gb) ==
    IF Len(gb.Queue) > 0
    THEN [gb EXCEPT !.Slots[0] = gb.Queue[Len(gb.Queue)]]
    ELSE gb

LetGoNextPiece(gb) ==
    IF Len(gb.Queue) > 0
    THEN [gb EXCEPT !.Slots[0] = gb.Queue[Len(gb.Queue)],
                    !.Queue = SubSeq(gb.Queue, 1, Len(gb.Queue) - 1)]
    ELSE gb

\* The inner loop of addOppQueue: swap every slot with the one above it.
RECURSIVE ShiftUp(_, _)
ShiftUp(slots, i) ==
    IF i >= NumSlots THEN slots ELSE ShiftUp(Swap(slots, i, i - 1), i + 1)

\* One iteration of addOppQueue's outer loop.
PlaceAttack(gb) ==
    LET nextq == Head(gb.OppQueue)
        rest == Tail(gb.OppQueue)
        slots == [ShiftUp(gb.Slots, 1) EXCEPT ![NumSlots - 1] = nextq]
    IN  [gb EXCEPT !.OppQueue = rest,
                   !.Slots = slots,
                   !.Dead = gb.Dead \/ (slots[0] # Nil /\ Len(rest) > 0)]

RECURSIVE addOppQueueLoop(_, _)
addOppQueueLoop(gb, added) ==
    IF Len(gb.OppQueue) > 0
    THEN addOppQueueLoop(PlaceAttack(gb), added + 1)
    ELSE [gb |-> gb, added |-> added]

addOppQueue(gb) == addOppQueueLoop(gb, 0)

\* The flight that lands one slot too late, in the slot of the stack's top.
TickFlightLate(gb, top) ==
    LET fp == gb.fallerPos
        moved == IF fp > 0 THEN Swap(gb.Slots, fp - 1, fp) ELSE gb.Slots
    IN  IF fp = top
        THEN [gb EXCEPT !.LastStateChange = StateChange("pieceland", fp, fp - 1),
                        !.Slots = moved,
                        !.fallerPos = -1,
                        !.status = "PieceAboutToDrop",
                        !.Timer = IF fp = 0 THEN "full" ELSE "quarter"]
        ELSE IF fp = 0 /\ top = 0
        THEN [gb EXCEPT !.Dead = TRUE,
                        !.LastStateChange = StateChange("lost", 0, 0)]
        ELSE [gb EXCEPT !.Slots = moved,
                        !.LastStateChange = StateChange("piecefall", fp, fp - 1),
                        !.status = "PieceDropping",
                        !.Timer = "full"]

\* The flight whose landing leaves fallerPos at the landed piece.
TickFlightKeepsFaller(gb, top) ==
    LET fp == gb.fallerPos
        moved == IF fp > 0 THEN Swap(gb.Slots, fp - 1, fp) ELSE gb.Slots
    IN  IF fp = top - 1
        THEN [gb EXCEPT !.LastStateChange = StateChange("pieceland", fp, fp - 1),
                        !.Slots = moved,
                        !.status = "PieceAboutToDrop",
                        !.Timer = IF fp = 0 THEN "full" ELSE "quarter"]
        ELSE IF fp = 0 /\ top = 0
        THEN [gb EXCEPT !.Dead = TRUE,
                        !.LastStateChange = StateChange("lost", 0, 0)]
        ELSE [gb EXCEPT !.Slots = moved,
                        !.LastStateChange = StateChange("piecefall", fp, fp - 1),
                        !.status = "PieceDropping",
                        !.Timer = "full"]

\* The flight with the short pause after every landing.
TickFlightShort(gb, top) ==
    LET fp == gb.fallerPos
        moved == IF fp > 0 THEN Swap(gb.Slots, fp - 1, fp) ELSE gb.Slots
    IN  IF fp = top - 1
        THEN [gb EXCEPT !.LastStateChange = StateChange("pieceland", fp, fp - 1),
                        !.Slots = moved,
                        !.fallerPos = -1,
                        !.status = "PieceAboutToDrop",
                        !.Timer = "quarter"]
        ELSE IF fp = 0 /\ top = 0
        THEN [gb EXCEPT !.Dead = TRUE,
                        !.LastStateChange = StateChange("lost", 0, 0)]
        ELSE [gb EXCEPT !.Slots = moved,
                        !.LastStateChange = StateChange("piecefall", fp, fp - 1),
                        !.status = "PieceDropping",
                        !.Timer = "full"]

\* Tick from "if gb.fallerPos == topOfStack-1" on.
TickFlight(gb, top) ==
    LET fp == gb.fallerPos
        moved == IF fp > 0 THEN Swap(gb.Slots, fp - 1, fp) ELSE gb.Slots
    IN  IF fp = top - 1
        THEN [gb EXCEPT !.LastStateChange = StateChange("pieceland", fp, fp - 1),
                        !.Slots = moved,
                        !.fallerPos = -1,
                        !.status = "PieceAboutToDrop",
                        !.Timer = IF fp = 0 THEN "full" ELSE "quarter"]
        ELSE IF fp = 0 /\ top = 0
        THEN [gb EXCEPT !.Dead = TRUE,
                        !.LastStateChange = StateChange("lost", 0, 0)]
        ELSE [gb EXCEPT !.Slots = moved,
                        !.LastStateChange = StateChange("piecefall", fp, fp - 1),
                        !.status = "PieceDropping",
                        !.Timer = "full"]

\* The branch of Tick for status PieceDropping.
TickDropping(gb) ==
    LET top == topOfStack(gb)
        let == IF gb.fallerPos = -1 THEN LetGoNextPiece(gb) ELSE gb
    IN  IF top = 0
        THEN [gb EXCEPT !.Dead = TRUE,
                        !.LastStateChange = StateChange("lost", 0, 0)]
        ELSE TickFlight([let EXCEPT !.fallerPos = let.fallerPos + 1], top)

\* A release that tests the column before the player queue.
TickReleaseColumnFirst(gb) ==
    LET top == topOfStack(gb)
    IN  IF top = 0
        THEN [gb EXCEPT !.Dead = TRUE,
                        !.LastStateChange = StateChange("lost", 0, 0)]
        ELSE IF Len(gb.Queue) = 0
        THEN [gb EXCEPT !.status = "PlayerQueueEmpty", !.Timer = "full"]
        ELSE TickFlight([LetGoNextPiece(gb) EXCEPT !.fallerPos = 0], top)

\* The release of the next piece in status PieceAboutToDrop / PlayerQueueEmpty.
TickRelease(gb) ==
    LET top == topOfStack(gb)
    IN  IF Len(gb.Queue) = 0
        THEN [gb EXCEPT !.status = "PlayerQueueEmpty", !.Timer = "full"]
        ELSE IF top = 0
        THEN [gb EXCEPT !.Dead = TRUE,
                        !.LastStateChange = StateChange("lost", 0, 0)]
        ELSE TickFlight([LetGoNextPiece(gb) EXCEPT !.fallerPos = 0], top)

\* A drain that leaves oppqueueReady set.
TickDrainStaysReady(gb) ==
    LET r == addOppQueue(gb)
    IN  IF r.gb.Dead
        THEN [r.gb EXCEPT !.LastStateChange = StateChange("lost", 0, 0)]
        ELSE [r.gb EXCEPT !.Timer = "full",
                          !.LastStateChange = StateChange("stackrise", r.added, 0)]

\* The attack drain of Tick.
TickDrain(gb) ==
    LET r == addOppQueue(gb)
        after == [r.gb EXCEPT !.oppqueueReady = FALSE]
    IN  IF after.Dead
        THEN [after EXCEPT !.LastStateChange = StateChange("lost", 0, 0)]
        ELSE [after EXCEPT !.Timer = "full",
                           !.LastStateChange = StateChange("stackrise", r.added, 0)]

\* The drain taken without the test of oppqueueReady.
DrainRunsUnready(gb) ==
    gb.status # "PieceDropping" /\ Len(gb.OppQueue) > 0

\* Whether Tick on gb reaches the call of addOppQueue.
DrainRuns(gb) ==
    gb.status # "PieceDropping" /\ gb.oppqueueReady /\ Len(gb.OppQueue) > 0

\* Tick, called when the main timer has fired (or by start()).
Tick(gb) ==
    LET fired == [gb EXCEPT !.Timer = "off"]
    IN  IF gb.status = "PieceDropping"
        THEN TickDropping(fired)
        ELSE IF DrainRuns(gb)
        THEN TickDrain(fired)
        ELSE TickRelease(fired)

\* The Questions the iterations of addOppQueue's outer loop write to the
\* bottom slot of gb, in the order of the iterations.
RECURSIVE PlacedBy(_)
PlacedBy(gb) ==
    IF Len(gb.OppQueue) > 0
    THEN <<PlaceAttack(gb).Slots[NumSlots - 1].id>> \o PlacedBy(PlaceAttack(gb))
    ELSE <<>>

(***************************************************************************)
(* Guess resolution.                                                       *)
(***************************************************************************)
\* q.OrigQuestion: the alphagram start() dealt as Question q, its Alphagram
\* field re-sorted by start().
OrigQuestion(q) ==
    LET alph == Shuffle(SearchResponse, randSeed)[q.id]
    IN  [Alphagram |-> alphagrammize(alph.Alphagram), Words |-> alph.Words]

populateMap(q) == populateMapOf(OrigQuestion(q))

\* solveQuestion without the delete of the guessed answer.
solveQuestionKeeps(q, guess, am) ==
    LET ok == guess \in am[q.id]
    IN  [partiallySolved |-> ok,
         fullySolved |-> ok /\ am[q.id] = {},
         wrong |-> ~ok /\ alphagrammize(guess) = ToLower(OrigQuestion(q).Alphagram),
         am |-> am]

\* solveQuestion that reports every hit as a full solve.
solveQuestionEager(q, guess, am) ==
    LET ok == guess \in am[q.id]
        left == IF ok THEN am[q.id] \ {guess} ELSE am[q.id]
    IN  [partiallySolved |-> ok,
         fullySolved |-> ok,
         wrong |-> ~ok /\ alphagrammize(guess) = ToLower(OrigQuestion(q).Alphagram),
         am |-> [am EXCEPT ![q.id] = left]]

solveQuestion(q, guess, am) ==
    LET ok == guess \in am[q.id]
        left == IF ok THEN am[q.id] \ {guess} ELSE am[q.id]
    IN  [partiallySolved |-> ok,
         fullySolved |-> ok /\ left = {},
         wrong |-> ~ok /\ alphagrammize(guess) = ToLower(OrigQuestion(q).Alphagram),
         am |-> [am EXCEPT ![q.id] = left]]

\* The locals of handleGuessEvent before its loop over the slots.
WalkStart(am) ==
    [partiallySolved |-> FALSE, fullySolvedQuestion |-> FALSE,
     fullySolvedSlot |-> -1, madePunishableMistake |-> FALSE,
     stateChanged |-> FALSE, am |-> am]

\* The loop of handleGuessEvent over the slots, from slot on.
RECURSIVE Walk(_, _, _, _)
Walk(gb, g, slot, st) ==
    IF slot >= NumSlots THEN st
    ELSE IF gb.Slots[slot] = Nil THEN Walk(gb, g, slot + 1, st)
    ELSE LET r == solveQuestion(gb.Slots[slot], g, st.am)
             st1 == [st EXCEPT !.partiallySolved = r.partiallySolved,
                               !.fullySolvedQuestion = r.fullySolved,
                               !.fullySolvedSlot =
                                   IF r.fullySolved THEN slot ELSE @,
                               !.am = r.am]
         IN  IF r.partiallySolved
             THEN [st1 EXCEPT !.stateChanged = TRUE]
             ELSE IF r.wrong /\ slot = gb.fallerPos
             THEN Walk(gb, g, slot + 1,
                       [st1 EXCEPT !.stateChanged = TRUE,
                                   !.madePunishableMistake = TRUE])
             ELSE Walk(gb, g, slot + 1, st1)

\* The punishment with the faller left where it is.
PunishInPlace(gb) ==
    [gb EXCEPT !.LastStateChange =
                   StateChange("pieceland", gb.fallerPos, gb.fallerPos),
               !.status = "PieceAboutToDrop",
               !.Timer = "quarter"]

\* A punishment that always takes the branch for topOfStack == 0.
PunishKills(gb) ==
    [gb EXCEPT !.Timer = "off",
               !.Dead = TRUE,
               !.LastStateChange = StateChange("lost", 0, 0)]

\* handleGuessEvent's punishment of a wrong anagram of the faller.
Punish(gb) ==
    LET top == topOfStack(gb)
    IN  IF top = 0
        THEN [gb EXCEPT !.Timer = "off",
                        !.Dead = TRUE,
                        !.LastStateChange = StateChange("lost", 0, 0)]
        ELSE [gb EXCEPT !.Slots = Swap(gb.Slots, gb.fallerPos, top - 1),
                        !.LastStateChange =
                            StateChange("pieceland", top - 1, gb.fallerPos),
                        !.fallerPos = -1,
                        !.status = "PieceAboutToDrop",
                        !.Timer = "quarter"]

\* The loop that shifts the pieces above a solved slot down by one.
RECURSIVE ShiftDown(_, _, _)
ShiftDown(slots, lastSlot, fallerPos) ==
    IF lastSlot > 0 /\ slots[lastSlot] # Nil /\ lastSlot # fallerPos
    THEN ShiftDown(Swap(slots, lastSlot, lastSlot + 1), lastSlot - 1, fallerPos)
    ELSE slots

\* The win check at the end of handleGuessEvent.
WinCheck(gb) ==
    IF Len(gb.Queue) = 0 /\ \A i \in SlotIdx : gb.Slots[i] = Nil
    THEN [gb EXCEPT !.Won = TRUE]
    ELSE gb

\* A solve that always takes the branch of the solved faller.
FinishSolveAsFaller(gb, slot) ==
    [gb EXCEPT !.Slots[slot] = Nil,
               !.Solved = gb.Solved + 1,
               !.LastStateChange = StateChange("fullysolvequestion", slot, 0),
               !.fallerPos = -1,
               !.status = "PieceAboutToDrop",
               !.Timer = "quarter"]

\* handleGuessEvent after the send to the router: the solved slot is cleared.
FinishSolve(gb, slot) ==
    LET cleared == [gb EXCEPT !.Slots[slot] = Nil,
                              !.Solved = gb.Solved + 1,
                              !.LastStateChange =
                                  StateChange("fullysolvequestion", slot, 0)]
    IN  IF gb.fallerPos = slot
        THEN [cleared EXCEPT !.fallerPos = -1,
                             !.status = "PieceAboutToDrop",
                             !.Timer = "quarter"]
        ELSE WinCheck([cleared EXCEPT !.Slots =
                          ShiftDown(cleared.Slots, slot - 1, gb.fallerPos)])

\* Every solved Question is sent on, whoever owns it.
SendsAnyQuestion(gb, slot) == TRUE

\* Whether the Question solved in a slot is sent to the opponent.
SendsAttack(gb, slot) == gb.Slots[slot].Whose = gb.Idx

\* A Question sent without the call of populateMap.
NotRepopulated(am, q) == am

\* q.populateMap() in handleGuessEvent, on the solved Question.
Repopulated(am, q) == [am EXCEPT ![q.id] = populateMap(q)]

\* handleGuessEvent(g) on board gb with the answer maps am, up to the send
\* to the router: emit is the Question to send (Nil if none), gb and am are
\* the board and the maps as they are when the send is reached (or at the
\* return, if nothing is sent), slot is fullySolvedSlot.
handleGuessEvent(gb, am, guess) ==
    LET g == ToLower(TrimSpace(guess))
        w == Walk(gb, g, 0, WalkStart(am))
    IN  IF ~w.partiallySolved /\ w.madePunishableMistake
        THEN [gb |-> Punish(gb), am |-> w.am, emit |-> Nil,
              slot |-> -1, stateChanged |-> w.stateChanged]
        ELSE IF w.fullySolvedQuestion
        THEN LET q == gb.Slots[w.fullySolvedSlot]
             IN  IF SendsAttack(gb, w.fullySolvedSlot)
                 THEN [gb |-> gb,
                       am |-> Repopulated(w.am, q),
                       emit |-> q,
                       slot |-> w.fullySolvedSlot,
                       stateChanged |-> w.stateChanged]
                 ELSE [gb |-> FinishSolve(gb, w.fullySolvedSlot),
                       am |-> w.am, emit |-> Nil,
                       slot |-> w.fullySolvedSlot,
                       stateChanged |-> w.stateChanged]
        ELSE [gb |-> gb, am |-> w.am, emit |-> Nil,
              slot |-> -1, stateChanged |-> w.stateChanged]

(***************************************************************************)
(* The initial state: NewGameStateManager, then StartGameCountdown.        *)
(***************************************************************************)
\* A snapshot that shows the status of before the step.
MarshalBefore(status) == [Status |-> Status]

\* A snapshot that shows the status Countdown whatever the status is.
MarshalCountdown(status) == [Status |-> "Countdown"]

\* gs.Marshal(): the model keeps the Status field of the snapshot.
Marshal(status) == [Status |-> status]

\* No snapshot was sent yet.
NoSnapshot == [Status |-> ""]

NoLocal == [slot |-> -1, flag |-> FALSE]

\* The user names: gs.Players[i] of the match is the name i, and Stranger
\* is the name of a user who is not in the match.
PlayerName(i) == i

Stranger == NumPlayers

Usernames == Players \cup {Stranger}

\* No GameSession: what s.Sessions[id] gives for an ID it does not hold;
\* a GameManager of 0 is the nil pointer.
NoSession == [Players |-> <<>>, GameManager |-> 0]

\* NewSessionManager: no session, no user in a session, the mutex free.
NewSessionManager ==
    /\ Sessions = <<>>
    /\ SessionsForPlayer = [u \in Usernames |-> 0]
    /\ managers = <<>>
    /\ smu = "free"

\* The state NewGameStateManager and StartGameCountdown leave, but for the
\* search criteria.
Constructed ==
    /\ Status = "Countdown"
    /\ timer = TRUE
    /\ Boards = <<>>
    /\ AnswerMap = <<>>
    /\ QuestionOffset = 0
    /\ randSeed \in 0 .. MaxSeed
    /\ exitedboards = <<>>
    /\ stateChange = 0
    /\ addToOppQueue = <<>>
    /\ stateOut = NoSnapshot
    /\ mpc = "select"
    /\ mlocal = [alph |-> Nil, i |-> 0, idx |-> 0]
    /\ bpc = [p \in Players |-> "none"]
    /\ blocal = [p \in Players |-> NoLocal]
    /\ guessCall = [p \in Players |-> "none"]
    /\ dpc = [pc |-> "idle", i |-> 0]
    /\ attacksSent = [p \in Players |-> <<>>]
    /\ attacksPlaced = [p \in Players |-> <<>>]

\* A match whose search finds the Questions of Rounds rounds, made with
\* NewGameStateManager and StartGameCountdown and not through a
\* SessionManager, which has no session.
Init == Constructed /\ SearchCriteria = PoolSize /\ NewSessionManager

(***************************************************************************)
(* The manager: start() and Loop().                                        *)
(***************************************************************************)
\* A deal that takes the first slice of the pool whatever the offset.
DealtFromStart(offset) ==
    [idx \in 0 .. (TotalNumQuestions - 1) |->
        [id |-> idx + 1, Whose |-> idx % 2]]

\* The Questions start() makes of the dealt slice, in order.
Dealt(offset) ==
    [idx \in 0 .. (TotalNumQuestions - 1) |->
        [id |-> offset + idx + 1, Whose |-> idx % 2]]

\* A deal that gives each board the Questions of the other parity.
RECURSIVE DealQueueSwapped(_, _, _)
DealQueueSwapped(dealt, p, idx) ==
    IF idx >= TotalNumQuestions THEN <<>>
    ELSE IF dealt[idx].Whose = 1 - p
    THEN <<dealt[idx]>> \o DealQueueSwapped(dealt, p, idx + 1)
    ELSE DealQueueSwapped(dealt, p, idx + 1)

\* The queue start() builds for board p: the Questions whose index in the
\* dealt slice has p's parity, in order.
RECURSIVE DealQueue(_, _, _)
DealQueue(dealt, p, idx) ==
    IF idx >= TotalNumQuestions THEN <<>>
    ELSE IF dealt[idx].Whose = p
    THEN <<dealt[idx]>> \o DealQueue(dealt, p, idx + 1)
    ELSE DealQueue(dealt, p, idx + 1)

\* A board of a new round: allocated, dealt, ticked once by start(), and
\* its loop goroutine started (loop sets status before its first select).
StartedBoard(p, offset) ==
    [Tick([newGameBoard(p) EXCEPT !.Queue = DealQueue(Dealt(offset), p, 0)])
        EXCEPT !.status = "PieceDropping"]

TooFewQuestions(offset) ==
    Len(Shuffle(SearchResponse, randSeed)) - offset < TotalNumQuestions

\* The Questions still in the router when a round starts keep their maps.
RouterIds == {addToOppQueue[k].id : k \in 1 .. Len(addToOppQueue)}

\* The end of Loop: after "break gloop".
LoopExit ==
    /\ Status' = "PermanentlyOver"
    /\ stateOut' = Marshal("PermanentlyOver")
    /\ mpc' = "done"

\* The program has ended in a panic of a Guess call (gs.Boards[i] before
\* the first start() has made the boards): no goroutine runs any more.
Panicked == \E p \in Players : guessCall[p] = "panicked"

\* case <-gs.timer.C
MgrTimer ==
    /\ ~Panicked
    /\ mpc = "select"
    /\ timer
    /\ timer' = FALSE
    /\ IF Status # "Countdown"
       THEN UNCHANGED <<Status, Boards, AnswerMap, QuestionOffset, exitedboards,
                        stateOut, mpc, bpc, blocal, guessCall, attacksSent, attacksPlaced>>
       ELSE IF TooFewQuestions(QuestionOffset)
       THEN /\ exitedboards' = [p \in Players |-> FALSE]
            /\ LoopExit
            /\ UNCHANGED <<Boards, AnswerMap, QuestionOffset, bpc, blocal,
                           guessCall, attacksSent, attacksPlaced>>
       ELSE /\ exitedboards' = [p \in Players |-> FALSE]
            /\ Boards' = [p \in Players |-> StartedBoard(p, QuestionOffset)]
            /\ AnswerMap' =
                 [id \in RouterIds \cup
                         (QuestionOffset + 1 .. QuestionOffset + TotalNumQuestions) |->
                    IF id > QuestionOffset
                    THEN populateMap([id |-> id, Whose |-> 0])
                    ELSE AnswerMap[id]]
            /\ QuestionOffset' = QuestionOffset + TotalNumQuestions
            /\ bpc' = [p \in Players |-> "select"]
            /\ blocal' = [p \in Players |-> NoLocal]
            /\ guessCall' = [p \in Players |->
                               IF guessCall[p] = "none" THEN "none" ELSE "orphaned"]
            /\ attacksSent' = [p \in Players |-> <<>>]
            /\ attacksPlaced' = [p \in Players |-> <<>>]
            /\ Status' = "Playing"
            /\ mpc' = "start_notify"
            /\ UNCHANGED stateOut
    /\ UNCHANGED <<randSeed, SearchCriteria, sessionVars, stateChange, addToOppQueue, mlocal, dpc>>

\* start(): gs.stateChange <- struct{}{}
MgrStartNotify ==
    /\ mpc = "start_notify"
    /\ stateChange < StateChangeCap
    /\ stateChange' = stateChange + 1
    /\ mpc' = "select"
    /\ UNCHANGED <<Status, timer, Boards, AnswerMap, QuestionOffset, randSeed, SearchCriteria, sessionVars,
                   exitedboards, addToOppQueue, stateOut, mlocal, bpc, blocal,
                   guessCall, dpc, attacksSent, attacksPlaced>>

\* gs.Boards[opp].oppQueueChan <- alph
SendToBoard(boards, alph) ==
    LET opp == 1 - alph.Whose
    IN  [boards EXCEPT ![opp].oppQueueChan = Append(@, alph)]

BoardHasRoom(alph) ==
    Len(Boards[1 - alph.Whose].oppQueueChan) < OppQueueChanCap

\* case alph := <-gs.addToOppQueue
MgrRoute ==
    /\ mpc = "select"
    /\ Len(addToOppQueue) > 0
    /\ LET alph == Head(addToOppQueue)
       IN  /\ addToOppQueue' = Tail(addToOppQueue)
           /\ IF BoardHasRoom(alph)
              THEN /\ Boards' = SendToBoard(Boards, alph)
                   /\ UNCHANGED <<mpc, mlocal>>
              ELSE /\ mpc' = "route"
                   /\ mlocal' = [mlocal EXCEPT !.alph = alph]
                   /\ UNCHANGED Boards
    /\ UNCHANGED <<Status, timer, AnswerMap, QuestionOffset, randSeed, SearchCriteria, sessionVars,
                   exitedboards, stateChange, stateOut, bpc, blocal, guessCall,
                   dpc, attacksSent, attacksPlaced>>

\* The send of MgrRoute, once the board's channel has room.
MgrRouteSend ==
    /\ mpc = "route"
    /\ BoardHasRoom(mlocal.alph)
    /\ Boards' = SendToBoard(Boards, mlocal.alph)
    /\ mlocal' = [mlocal EXCEPT !.alph = Nil]
    /\ mpc' = "select"
    /\ UNCHANGED <<Status, timer, AnswerMap, QuestionOffset, randSeed, SearchCriteria, sessionVars,
                   exitedboards, stateChange, addToOppQueue, stateOut, bpc,
                   blocal, guessCall, dpc, attacksSent, attacksPlaced>>

\* The first board from i on whose mutex is held (NumPlayers if none).
FirstHeld(i) ==
    IF \E k \in DOMAIN Boards : k >= i /\ Boards[k].mu # "free"
    THEN CHOOSE k \in DOMAIN Boards :
            /\ k >= i /\ Boards[k].mu # "free"
            /\ \A j \in DOMAIN Boards : (j >= i /\ Boards[j].mu # "free") => k <= j
    ELSE NumPlayers

Unlocked(boards) == [p \in DOMAIN boards |-> [boards[p] EXCEPT !.mu = "free"]]

\* The snapshot from the Lock of board i on: the locks are taken in order;
\* with all of them held the snapshot is sent and the locks are released.
SnapshotFrom(i) ==
    LET k == FirstHeld(i)
        locked == [p \in DOMAIN Boards |->
                     IF p >= i /\ p < k THEN [Boards[p] EXCEPT !.mu = "mgr"]
                     ELSE Boards[p]]
    IN  IF k < NumPlayers /\ k \in DOMAIN Boards
        THEN /\ Boards' = locked
             /\ mpc' = "snap_lock"
             /\ mlocal' = [mlocal EXCEPT !.i = k]
             /\ UNCHANGED stateOut
        ELSE /\ stateOut' = Marshal(Status)
             /\ Boards' = Unlocked(Boards)
             /\ mpc' = "select"
             /\ mlocal' = [mlocal EXCEPT !.i = 0]

\* case <-gs.stateChange
MgrSnapshot ==
    /\ mpc = "select"
    /\ stateChange > 0
    /\ stateChange' = stateChange - 1
    /\ SnapshotFrom(0)
    /\ UNCHANGED <<Status, timer, AnswerMap, QuestionOffset, randSeed, SearchCriteria, sessionVars,
                   exitedboards, addToOppQueue, bpc, blocal, guessCall, dpc,
                   attacksSent, attacksPlaced>>

\* gs.Boards[i].Lock() of the snapshot, once board i's mutex is free.
MgrSnapLock ==
    /\ mpc = "snap_lock"
    /\ Boards[mlocal.i].mu = "free"
    /\ SnapshotFrom(mlocal.i)
    /\ UNCHANGED <<Status, timer, AnswerMap, QuestionOffset, randSeed, SearchCriteria, sessionVars,
                   exitedboards, stateChange, addToOppQueue, bpc, blocal,
                   guessCall, dpc, attacksSent, attacksPlaced>>

\* The first board from i on, other than idx, whose mutex is held.
FirstHeldOther(i, idx) ==
    IF \E k \in Players : k >= i /\ k # idx /\ Boards[k].mu # "free"
    THEN CHOOSE k \in Players :
            /\ k >= i /\ k # idx /\ Boards[k].mu # "free"
            /\ \A j \in Players :
                   (j >= i /\ j # idx /\ Boards[j].mu # "free") => k <= j
    ELSE NumPlayers

\* The loop over shouldQuitSoon from board i on, for the exit of board idx.
QuitOthersFrom(i, idx) ==
    LET k == FirstHeldOther(i, idx)
    IN  /\ Boards' = [p \in Players |->
                        IF p >= i /\ p < k /\ p # idx
                        THEN [Boards[p] EXCEPT !.quitting = TRUE]
                        ELSE Boards[p]]
        /\ IF k < NumPlayers
           THEN /\ mpc' = "quit_lock"
                /\ mlocal' = [mlocal EXCEPT !.i = k, !.idx = idx]
           ELSE /\ mpc' = "select"
                /\ mlocal' = [mlocal EXCEPT !.i = 0, !.idx = 0]

\* The test passed as soon as one board has reported.
anyquit(exited) == \E p \in DOMAIN exited : exited[p]

\* allquit of the boardexited case: every board has reported its exit.
allquit(exited) == \A p \in DOMAIN exited : exited[p]

\* case idx := <-gs.boardexited, with the send of board idx's loop.
MgrBoardExited(idx) ==
    /\ mpc = "select"
    /\ bpc[idx] = "exit"
    /\ bpc' = [bpc EXCEPT ![idx] = "done"]
    /\ exitedboards' = [exitedboards EXCEPT ![idx] = TRUE]
    /\ IF allquit(exitedboards')
       THEN /\ timer' = TRUE
            /\ Status' = "Countdown"
            /\ UNCHANGED <<Boards, mpc, mlocal>>
       ELSE /\ QuitOthersFrom(0, idx)
            /\ UNCHANGED <<timer, Status>>
    /\ UNCHANGED <<AnswerMap, QuestionOffset, randSeed, SearchCriteria, sessionVars, stateChange,
                   addToOppQueue, stateOut, blocal, guessCall, dpc, attacksSent, attacksPlaced>>

\* gb.Lock() of shouldQuitSoon, once the board's mutex is free.
MgrQuitLock ==
    /\ mpc = "quit_lock"
    /\ Boards[mlocal.i].mu = "free"
    /\ QuitOthersFrom(mlocal.i, mlocal.idx)
    /\ UNCHANGED <<Status, timer, AnswerMap, QuestionOffset, randSeed, SearchCriteria, sessionVars,
                   exitedboards, stateChange, addToOppQueue, stateOut, bpc,
                   blocal, guessCall, dpc, attacksSent, attacksPlaced>>

(***************************************************************************)
(* The loop goroutine of board b.                                          *)
(***************************************************************************)
\* After "break gbloop": both timers are stopped; the send on boardexited
\* is the step MgrBoardExited.
LeaveLoop(gb) == [gb EXCEPT !.Timer = "off", !.OppQueueTimer = FALSE]

\* A Lock that does not wait for the Match loop.
CanLockPastMgr(gb) == gb.mu # "board"

\* gb.Lock() by the board's goroutine returns at once: the mutex is free.
CanLock(gb) == gb.mu = "free"

\* An exit test after Tick that does not look at Dead.
TickExitsIgnoresDead(gb) == gb.Won \/ gb.quitting

\* The exit test of the timer case of loop.
TickExits(gb) == gb.Won \/ gb.Dead \/ gb.quitting

\* The exit test of the guess case of loop.
GuessExits(gb) == gb.Won \/ gb.Dead

\* The exit test of a case of loop on board gb, taken with the mutex free:
\* the goroutine leaves the loop or returns to the select.
ExitTest(gb, exits) ==
    IF exits THEN [gb |-> LeaveLoop(gb), pc |-> "exit"]
    ELSE [gb |-> gb, pc |-> "select"]

\* case <-gb.Timer.C: gb.Tick(), the send on stateChange and the exit test;
\* with stateChange full the goroutine stays at the send.
BoardTick(b) ==
    /\ bpc[b] = "select"
    /\ Boards[b].Timer # "off"
    /\ CanLock(Boards[b])
    /\ LET gb == Tick(Boards[b])
           t == ExitTest(gb, TickExits(gb))
       IN  IF stateChange < StateChangeCap
           THEN /\ stateChange' = stateChange + 1
                /\ Boards' = [Boards EXCEPT ![b] = t.gb]
                /\ bpc' = [bpc EXCEPT ![b] = t.pc]
           ELSE /\ Boards' = [Boards EXCEPT ![b] = gb]
                /\ bpc' = [bpc EXCEPT ![b] = "tick_notify"]
                /\ UNCHANGED stateChange
    /\ attacksPlaced' =
         [attacksPlaced EXCEPT ![b] =
            IF DrainRuns(Boards[b]) THEN @ \o PlacedBy(Boards[b]) ELSE @]
    /\ UNCHANGED <<Status, timer, AnswerMap, QuestionOffset, randSeed, SearchCriteria, sessionVars,
                   exitedboards, addToOppQueue, stateOut, mpc, mlocal, blocal,
                   guessCall, dpc, attacksSent>>

\* gb.manager.stateChange <- struct{}{} after Tick, once there is room, and
\* the exit test; with the mutex held the goroutine stays at the Lock.
BoardTickNotify(b) ==
    /\ bpc[b] = "tick_notify"
    /\ stateChange < StateChangeCap
    /\ stateChange' = stateChange + 1
    /\ LET t == ExitTest(Boards[b], TickExits(Boards[b]))
       IN  IF CanLock(Boards[b])
           THEN /\ Boards' = [Boards EXCEPT ![b] = t.gb]
                /\ bpc' = [bpc EXCEPT ![b] = t.pc]
           ELSE /\ bpc' = [bpc EXCEPT ![b] = "tick_check"]
                /\ UNCHANGED Boards
    /\ UNCHANGED <<Status, timer, AnswerMap, QuestionOffset, randSeed, SearchCriteria, sessionVars,
                   exitedboards, addToOppQueue, stateOut, mpc, mlocal, blocal,
                   guessCall, dpc, attacksSent, attacksPlaced>>

\* gb.Lock(); if gb.Won || gb.Dead || gb.quitting { break gbloop }
BoardTickCheck(b) ==
    /\ bpc[b] = "tick_check"
    /\ CanLock(Boards[b])
    /\ LET t == ExitTest(Boards[b], TickExits(Boards[b]))
       IN  /\ Boards' = [Boards EXCEPT ![b] = t.gb]
           /\ bpc' = [bpc EXCEPT ![b] = t.pc]
    /\ UNCHANGED <<Status, timer, AnswerMap, QuestionOffset, randSeed, SearchCriteria, sessionVars,
                   exitedboards, stateChange, addToOppQueue, stateOut, mpc,
                   mlocal, blocal, guessCall, dpc, attacksSent, attacksPlaced>>

\* case <-gb.OppQueueTimer.C: gb.SetOppQueueReady()
BoardOppTimer(b) ==
    /\ bpc[b] = "select"
    /\ Boards[b].OppQueueTimer
    /\ Boards' = [Boards EXCEPT ![b].OppQueueTimer = FALSE,
                                ![b].oppqueueReady = TRUE]
    /\ UNCHANGED <<Status, timer, AnswerMap, QuestionOffset, randSeed, SearchCriteria, sessionVars,
                   exitedboards, stateChange, addToOppQueue, stateOut, mpc,
                   mlocal, bpc, blocal, guessCall, dpc, attacksSent, attacksPlaced>>

\* After handleGuessEvent returned on board gb: the send on stateChange if
\* the state changed, and the exit test.
AfterGuess(b, gb, stateChanged) ==
    LET t == ExitTest(gb, GuessExits(gb))
    IN  IF ~stateChanged
        THEN /\ Boards' = [Boards EXCEPT ![b] = t.gb]
             /\ bpc' = [bpc EXCEPT ![b] = t.pc]
             /\ UNCHANGED stateChange
        ELSE IF stateChange < StateChangeCap
        THEN /\ stateChange' = stateChange + 1
             /\ Boards' = [Boards EXCEPT ![b] = t.gb]
             /\ bpc' = [bpc EXCEPT ![b] = t.pc]
        ELSE /\ Boards' = [Boards EXCEPT ![b] = gb]
             /\ bpc' = [bpc EXCEPT ![b] = "guess_notify"]
             /\ UNCHANGED stateChange

\* SendGuess and Leave of the session manager hold its mutex for the whole
\* call, so a call starts only when no other call is in progress, and none
\* starts once Leave has deleted the session.
SessionFree == dpc.pc = "idle" /\ \A q \in Players : guessCall[q] = "none"

\* A Guess call with the word evt and case evt := <-gb.guessEvents:
\* gb.handleGuessEvent(evt), the send on stateChange and the exit test.  A send to a full router
\* leaves the goroutine at that send, with the mutex held.
BoardGuess(b, evt) ==
    /\ SessionFree
    /\ bpc[b] = "select"
    /\ CanLock(Boards[b])
    /\ LET r == handleGuessEvent(Boards[b], AnswerMap, evt)
           got == r.gb
       IN  /\ AnswerMap' = r.am
           /\ IF r.emit = Nil
              THEN /\ AfterGuess(b, got, r.stateChanged)
                   /\ UNCHANGED <<addToOppQueue, attacksSent, attacksPlaced, blocal>>
              ELSE IF Len(addToOppQueue) < AddToOppQueueCap
              THEN /\ AfterGuess(b, FinishSolve(got, r.slot), r.stateChanged)
                   /\ addToOppQueue' = Append(addToOppQueue, r.emit)
                   /\ attacksSent' = [attacksSent EXCEPT ![b] = Append(@, r.emit.id)]
                   /\ UNCHANGED blocal
              ELSE /\ Boards' = [Boards EXCEPT ![b] = [got EXCEPT !.mu = "board"]]
                   /\ blocal' = [blocal EXCEPT ![b] =
                                   [slot |-> r.slot, flag |-> r.stateChanged]]
                   /\ bpc' = [bpc EXCEPT ![b] = "guess_send"]
                   /\ UNCHANGED <<addToOppQueue, attacksSent, attacksPlaced, stateChange>>
    /\ UNCHANGED <<Status, timer, QuestionOffset, randSeed, SearchCriteria, sessionVars, exitedboards,
                   stateOut, mpc, mlocal, guessCall, dpc, attacksPlaced>>

\* gb.manager.addToOppQueue <- q in handleGuessEvent, once the router has
\* room, the rest of handleGuessEvent, and what follows it in loop.
BoardGuessSend(b) ==
    /\ bpc[b] = "guess_send"
    /\ Len(addToOppQueue) < AddToOppQueueCap
    /\ LET q == Boards[b].Slots[blocal[b].slot]
       IN  /\ addToOppQueue' = Append(addToOppQueue, q)
           /\ attacksSent' = [attacksSent EXCEPT ![b] = Append(@, q.id)]
    /\ AfterGuess(b, [FinishSolve(Boards[b], blocal[b].slot) EXCEPT !.mu = "free"],
                  blocal[b].flag)
    /\ blocal' = [blocal EXCEPT ![b] = NoLocal]
    /\ UNCHANGED <<Status, timer, AnswerMap, QuestionOffset, randSeed, SearchCriteria, sessionVars,
                   exitedboards, stateOut, mpc, mlocal, guessCall, dpc,
                   attacksPlaced>>

\* gb.manager.stateChange <- struct{}{} after handleGuessEvent, once there
\* is room, and the exit test; with the mutex held the goroutine stays at
\* the Lock.
BoardGuessNotify(b) ==
    /\ bpc[b] = "guess_notify"
    /\ stateChange < StateChangeCap
    /\ stateChange' = stateChange + 1
    /\ LET t == ExitTest(Boards[b], GuessExits(Boards[b]))
       IN  IF CanLock(Boards[b])
           THEN /\ Boards' = [Boards EXCEPT ![b] = t.gb]
                /\ bpc' = [bpc EXCEPT ![b] = t.pc]
           ELSE /\ bpc' = [bpc EXCEPT ![b] = "guess_check"]
                /\ UNCHANGED Boards
    /\ UNCHANGED <<Status, timer, AnswerMap, QuestionOffset, randSeed, SearchCriteria, sessionVars,
                   exitedboards, addToOppQueue, stateOut, mpc, mlocal, blocal,
                   guessCall, dpc, attacksSent, attacksPlaced>>

\* gb.Lock(); if gb.Won || gb.Dead { break gbloop }
BoardGuessCheck(b) ==
    /\ bpc[b] = "guess_check"
    /\ CanLock(Boards[b])
    /\ LET t == ExitTest(Boards[b], GuessExits(Boards[b]))
       IN  /\ Boards' = [Boards EXCEPT ![b] = t.gb]
           /\ bpc' = [bpc EXCEPT ![b] = t.pc]
    /\ UNCHANGED <<Status, timer, AnswerMap, QuestionOffset, randSeed, SearchCriteria, sessionVars,
                   exitedboards, stateChange, addToOppQueue, stateOut, mpc,
                   mlocal, blocal, guessCall, dpc, attacksSent, attacksPlaced>>

\* An attack put at the head of the queue.
PrependOppQueue(queue, alph) == <<alph>> \o queue

\* An arrival that is not put on the attack queue.
DropArrival(queue, alph) == queue

\* gb.OppQueue = append(gb.OppQueue, alph)
AppendOppQueue(queue, alph) == Append(queue, alph)

\* case alph := <-gb.oppQueueChan: the append under the mutex, the send on
\* stateChange and the start of the attack timer if the queue was empty;
\* with stateChange full the goroutine stays at the send.
BoardOppArrive(b) ==
    /\ bpc[b] = "select"
    /\ Len(Boards[b].oppQueueChan) > 0
    /\ CanLock(Boards[b])
    /\ LET startTimer == Len(Boards[b].OppQueue) = 0
           gb == [Boards[b] EXCEPT
                    !.oppQueueChan = Tail(@),
                    !.OppQueue = AppendOppQueue(@, Head(Boards[b].oppQueueChan))]
       IN  IF stateChange < StateChangeCap
           THEN /\ stateChange' = stateChange + 1
                /\ Boards' = [Boards EXCEPT ![b] =
                                [gb EXCEPT !.OppQueueTimer = @ \/ startTimer]]
                /\ UNCHANGED <<bpc, blocal>>
           ELSE /\ Boards' = [Boards EXCEPT ![b] = gb]
                /\ blocal' = [blocal EXCEPT ![b] =
                                [slot |-> -1, flag |-> startTimer]]
                /\ bpc' = [bpc EXCEPT ![b] = "opp_notify"]
                /\ UNCHANGED stateChange
    /\ UNCHANGED <<Status, timer, AnswerMap, QuestionOffset, randSeed, SearchCriteria, sessionVars,
                   exitedboards, addToOppQueue, stateOut, mpc, mlocal,
                   guessCall, dpc, attacksSent, attacksPlaced>>

\* gb.manager.stateChange <- struct{}{} after an attack's arrival, once
\* there is room, and the start of the attack timer.
BoardOppNotify(b) ==
    /\ bpc[b] = "opp_notify"
    /\ stateChange < StateChangeCap
    /\ stateChange' = stateChange + 1
    /\ Boards' = [Boards EXCEPT ![b].OppQueueTimer = @ \/ blocal[b].flag]
    /\ blocal' = [blocal EXCEPT ![b] = NoLocal]
    /\ bpc' = [bpc EXCEPT ![b] = "select"]
    /\ UNCHANGED <<Status, timer, AnswerMap, QuestionOffset, randSeed, SearchCriteria, sessionVars,
                   exitedboards, addToOppQueue, stateOut, mpc, mlocal,
                   guessCall, dpc, attacksSent, attacksPlaced>>

(***************************************************************************)
(* The callers: players who guess, the session that destroys the match,    *)
(* and the consumer of the snapshots.                                      *)
(***************************************************************************)
\* A lookup that takes the first board for a name it does not find.
FirstBoardIfUnknown(username) ==
    IF \E i \in Players : PlayerName(i) = username
    THEN CHOOSE i \in Players : PlayerName(i) = username
    ELSE 0

\* Guess, the loop over gs.Players: the first index i with
\* gs.Players[i] == username, or -1 if the loop ends with found = false
\* (Guess then returns the error "player is not in this game").
PlayerIndex(username) ==
    IF \E i \in Players : PlayerName(i) = username
    THEN CHOOSE i \in Players :
            /\ PlayerName(i) = username
            /\ \A j \in Players : PlayerName(j) = username => i <= j
    ELSE -1

\* Guess(username, guess) of the session manager's caller, for a name that
\* is not in the match or for a player whose board's loop is not running
\* (the guess to a running board is BoardGuess).  For a name not found the
\* call returns its error and nothing changes.  For a player, before the
\* first start() has made gs.Boards, gs.Boards[i] is an index out of range
\* and the call panics; nothing recovers, so the program ends (the timer of
\* the Match loop, the only step left, does not fire).  Otherwise
\* the guess is sent to the board's channel, which blocks for ever if the
\* channel is full, since the board's loop has left.
GuessCall(username) ==
    /\ SessionFree
    /\ LET p == PlayerIndex(username)
       IN  IF p = -1
           THEN UNCHANGED <<Boards, guessCall>>
           ELSE IF Boards = <<>>
           THEN /\ guessCall' = [guessCall EXCEPT ![p] = "panicked"]
                /\ UNCHANGED Boards
           ELSE /\ bpc[p] \in {"exit", "done"}
                /\ IF Boards[p].guessEvents < GuessEventsCap
                   THEN /\ Boards' = [Boards EXCEPT ![p].guessEvents = @ + 1]
                        /\ UNCHANGED guessCall
                   ELSE /\ guessCall' = [guessCall EXCEPT ![p] = "blocked"]
                        /\ UNCHANGED Boards
    /\ UNCHANGED <<Status, timer, AnswerMap, QuestionOffset, randSeed, SearchCriteria, sessionVars,
                   exitedboards, stateChange, addToOppQueue, stateOut, mpc,
                   mlocal, bpc, blocal, dpc, attacksSent, attacksPlaced>>

\* A TryDestroy that never refuses.
NeverRefuses(status) == FALSE

\* TryDestroy: if gs.Status != Countdown, the error "cannot destroy an
\* ongoing game" is returned.
CannotDestroy(status) == status # "Countdown"

\* TryDestroy.  With a status other than Countdown the call returns an
\* error and changes nothing.  Otherwise it calls gs.Stop(), whose send on
\* the nil channel gs.stop blocks for ever: the caller stays there, with
\* the session manager's mutex held.
TryDestroy ==
    /\ SessionFree
    /\ IF CannotDestroy(Status)
       THEN UNCHANGED dpc
       ELSE dpc' = [pc |-> "stop", i |-> 0]
    /\ UNCHANGED <<Status, timer, Boards, AnswerMap, QuestionOffset, randSeed, SearchCriteria, sessionVars,
                   exitedboards, stateChange, addToOppQueue, stateOut, mpc,
                   mlocal, bpc, blocal, guessCall, attacksSent, attacksPlaced>>

Next ==
    \/ MgrTimer
    \/ MgrStartNotify
    \/ MgrRoute
    \/ MgrRouteSend
    \/ MgrSnapshot
    \/ MgrSnapLock
    \/ \E idx \in Players : MgrBoardExited(idx)
    \/ MgrQuitLock
    \/ \E b \in Players : BoardTick(b)
    \/ \E b \in Players : BoardTickNotify(b)
    \/ \E b \in Players : BoardTickCheck(b)
    \/ \E b \in Players : BoardOppTimer(b)
    \/ \E b \in Players : \E evt \in GuessInputs : BoardGuess(b, evt)
    \/ \E b \in Players : BoardGuessSend(b)
    \/ \E b \in Players : BoardGuessNotify(b)
    \/ \E b \in Players : BoardGuessCheck(b)
    \/ \E b \in Players : BoardOppArrive(b)
    \/ \E b \in Players : BoardOppNotify(b)
    \/ \E username \in Usernames : GuessCall(username)
    \/ TryDestroy

Spec == Init /\ [][Next]_vars

(***************************************************************************)
(* A match of two rounds: the search finds the Questions of two rounds.    *)
(* Player 1 guesses any word of the inputs and player 0 only the word      *)
(* "fe"; no Guess call comes after a board's loop has left, and nobody     *)
(* calls TryDestroy.                                                       *)
(***************************************************************************)
InitRounds ==
    Constructed /\ SearchCriteria = 2 * TotalNumQuestions /\ NewSessionManager

RoundsInputs(p) == IF p = 0 THEN {<<102, 101>>} ELSE GuessInputs

NextRounds ==
    \/ MgrTimer
    \/ MgrStartNotify
    \/ MgrRoute
    \/ MgrRouteSend
    \/ MgrSnapshot
    \/ MgrSnapLock
    \/ \E idx \in Players : MgrBoardExited(idx)
    \/ MgrQuitLock
    \/ \E b \in Players : BoardTick(b)
    \/ \E b \in Players : BoardTickNotify(b)
    \/ \E b \in Players : BoardTickCheck(b)
    \/ \E b \in Players : BoardOppTimer(b)
    \/ \E b \in Players : \E evt \in RoundsInputs(b) : BoardGuess(b, evt)
    \/ \E b \in Players : BoardGuessSend(b)
    \/ \E b \in Players : BoardGuessNotify(b)
    \/ \E b \in Players : BoardGuessCheck(b)
    \/ \E b \in Players : BoardOppArrive(b)
    \/ \E b \in Players : BoardOppNotify(b)

SpecRounds == InitRounds /\ [][NextRounds]_vars

(***************************************************************************)
(* The SessionManager: Seek, Unseek, Join and Leave of any user, and the   *)
(* Loop of every GameStateManager that Join made.  Each call holds the     *)
(* SessionManager's mutex from its first line to its return.  The match    *)
(* of the variables above was not made by this SessionManager and takes    *)
(* no step here.                                                           *)
(***************************************************************************)
\* How many IDs Seek hands out.
MaxSessions == 2

\* How many GameStateManagers Join makes.
MaxManagers == 3

SessionIds == 1 .. MaxSessions

\* s.Sessions[id]: nil for an ID that was never handed out or was deleted.
SessionOf(id) == IF id \in DOMAIN Sessions THEN Sessions[id] ELSE NoSession

\* Seek: refused for a user who is in a session; else a new GameSession
\* with a new ID, its Players the seeker alone and no GameManager.
Seek(seeker) ==
    /\ smu = "free"
    /\ IF SessionsForPlayer[seeker] # 0
       THEN UNCHANGED <<Sessions, SessionsForPlayer>>
       ELSE /\ Len(Sessions) < MaxSessions
            /\ Sessions' = Append(Sessions,
                                  [Players |-> <<seeker>>, GameManager |-> 0])
            /\ SessionsForPlayer' =
                 [SessionsForPlayer EXCEPT ![seeker] = Len(Sessions) + 1]
    /\ UNCHANGED <<managers, smu, matchVars>>

\* Unseek: refused for a user who is in no session or whose session has a
\* GameManager; else the session and the seeker's entry are deleted.
Unseek(seeker) ==
    /\ smu = "free"
    /\ IF SessionsForPlayer[seeker] = 0
       THEN UNCHANGED <<Sessions, SessionsForPlayer>>
       ELSE IF Sessions[SessionsForPlayer[seeker]].GameManager # 0
       THEN UNCHANGED <<Sessions, SessionsForPlayer>>
       ELSE /\ Sessions' =
                 [Sessions EXCEPT ![SessionsForPlayer[seeker]] = NoSession]
            /\ SessionsForPlayer' = [SessionsForPlayer EXCEPT ![seeker] = 0]
    /\ UNCHANGED <<managers, smu, matchVars>>

\* The session after Join appended the joiner and set its GameManager to
\* the new GameStateManager m.
Joined(gs, joiner, m) ==
    [Players |-> Append(gs.Players, joiner), GameManager |-> m]

\* NewGameStateManager and StartGameCountdown: the status Countdown, no
\* Question dealt yet and a Loop goroutine.
NewManager(players) ==
    [Players |-> players, Status |-> "Countdown", QuestionOffset |-> 0,
     running |-> TRUE]

\* Join: refused for a user who is in a session and for an ID with no
\* session; else the joiner is appended to the session's Players, a new
\* GameStateManager is made for them and started, and the joiner is put in
\* the session.
Join(joiner, id) ==
    /\ smu = "free"
    /\ IF SessionsForPlayer[joiner] # 0
       THEN UNCHANGED <<Sessions, SessionsForPlayer, managers>>
       ELSE IF SessionOf(id) = NoSession
       THEN UNCHANGED <<Sessions, SessionsForPlayer, managers>>
       ELSE /\ Len(managers) < MaxManagers
            /\ Sessions' = [Sessions EXCEPT
                              ![id] = Joined(@, joiner, Len(managers) + 1)]
            /\ managers' =
                 Append(managers, NewManager(Append(Sessions[id].Players, joiner)))
            /\ SessionsForPlayer' = [SessionsForPlayer EXCEPT ![joiner] = id]
    /\ UNCHANGED <<smu, matchVars>>

\* Leave: refused for a user who is in no session or in another one than
\* id.  sess.GameManager.Players of a session with no GameManager is a nil
\* dereference.  TryDestroy refuses unless the status is Countdown, and
\* then its gs.Stop() sends on gs.stop, which NewGameStateManager does not
\* make: the call never returns and keeps the mutex, so the deletes that
\* follow it are never reached.
Leave(leaver, id) ==
    /\ smu = "free"
    /\ IF SessionsForPlayer[leaver] = 0
       THEN UNCHANGED smu
       ELSE IF SessionsForPlayer[leaver] # id
       THEN UNCHANGED smu
       ELSE IF Sessions[id].GameManager = 0
       THEN smu' = "panicked"
       ELSE IF CannotDestroy(managers[Sessions[id].GameManager].Status)
       THEN UNCHANGED smu
       ELSE smu' = "blocked"
    /\ UNCHANGED <<Sessions, SessionsForPlayer, managers, matchVars>>

\* The program runs: no call ended it with a panic.
Alive == smu # "panicked"

\* Loop of manager m, case <-gs.timer.C in Countdown, start() succeeds:
\* the Questions of a round are dealt and the status is Playing.
ManagerStart(m) ==
    /\ Alive
    /\ m \in DOMAIN managers
    /\ managers[m].running
    /\ managers[m].Status = "Countdown"
    /\ ~TooFewQuestions(managers[m].QuestionOffset)
    /\ managers' = [managers EXCEPT
                      ![m].Status = "Playing",
                      ![m].QuestionOffset = @ + TotalNumQuestions]
    /\ UNCHANGED <<Sessions, SessionsForPlayer, smu, matchVars>>

\* Loop of manager m, case <-gs.timer.C in Countdown, start() fails for
\* too few Questions left: Loop leaves with the status PermanentlyOver.
ManagerStartFails(m) ==
    /\ Alive
    /\ m \in DOMAIN managers
    /\ managers[m].running
    /\ managers[m].Status = "Countdown"
    /\ TooFewQuestions(managers[m].QuestionOffset)
    /\ managers' = [managers EXCEPT ![m].Status = "PermanentlyOver",
                                    ![m].running = FALSE]
    /\ UNCHANGED <<Sessions, SessionsForPlayer, smu, matchVars>>

\* Loop of manager m, case idx := <-gs.boardexited of the last board: the
\* status is Countdown again.
ManagerRoundOver(m) ==
    /\ Alive
    /\ m \in DOMAIN managers
    /\ managers[m].running
    /\ managers[m].Status = "Playing"
    /\ managers' = [managers EXCEPT ![m].Status = "Countdown"]
    /\ UNCHANGED <<Sessions, SessionsForPlayer, smu, matchVars>>

InitSessions == Constructed /\ SearchCriteria = PoolSize /\ NewSessionManager

NextSessions ==
    \/ \E seeker \in Usernames : Seek(seeker)
    \/ \E seeker \in Usernames : Unseek(seeker)
    \/ \E joiner \in Usernames : \E id \in SessionIds : Join(joiner, id)
    \/ \E leaver \in Usernames : \E id \in SessionIds : Leave(leaver, id)
    \/ \E m \in 1 .. MaxManagers : ManagerStart(m)
    \/ \E m \in 1 .. MaxManagers : ManagerStartFails(m)
    \/ \E m \in 1 .. MaxManagers : ManagerRoundOver(m)

SpecSessions == InitSessions /\ [][NextSessions]_vars

(***************************************************************************)
(* Properties.                                                             *)
(***************************************************************************)
\* The Match loop waits for board b: to make room in its attack channel,
\* or to release its mutex.
MgrWaitsForBoard(b) ==
    \/ /\ mpc = "route"
       /\ 1 - mlocal.alph.Whose = b
       /\ ~BoardHasRoom(mlocal.alph)
    \/ /\ mpc \in {"snap_lock", "quit_lock"}
       /\ mlocal.i = b
       /\ Boards[b].mu = "board"

\* The loop of board b waits for the Match loop: to receive from
\* stateChange or from the router, which only the Match loop does.
BoardWaitsForMgr(b) ==
    \/ /\ bpc[b] \in {"tick_notify", "guess_notify", "opp_notify"}
       /\ stateChange = StateChangeCap
    \/ /\ bpc[b] = "guess_send"
       /\ Len(addToOppQueue) = AddToOppQueueCap

\* C1: the engine never deadlocks: in no reachable state does the Match
\* loop wait for a board (a send to its attack channel, its mutex) whose
\* loop in turn waits for the Match loop (a send on stateChange or to the
\* router), so every blocked send and lock acquisition can complete.
C1_NoDeadlock ==
    \A b \in DOMAIN Boards : ~(MgrWaitsForBoard(b) /\ BoardWaitsForMgr(b))

\* The occupied slots of a board other than the faller.
StackSlots(gb) == {i \in SlotIdx : gb.Slots[i] # Nil /\ i # gb.fallerPos}

\* C2: at every point where a board can be observed (its mutex is not held
\* by its own loop), the occupied slots other than the faller are the
\* contiguous suffix topOfStack .. NumSlots - 1 of the slot array: no empty
\* slot lies below an occupied one.
C2_ContiguousStack ==
    \A b \in DOMAIN Boards :
        Boards[b].mu # "board" =>
            StackSlots(Boards[b]) = topOfStack(Boards[b]) .. (NumSlots - 1)

\* The Questions in the slots of a board.
SlotIds(gb) == {gb.Slots[i].id : i \in SlotIdx} \ {Nil.id}

\* C3: within a round, a Question that is in a slot of a board before a
\* step and in none after it was fully solved by that step: the board's
\* Solved count went up by one and LastStateChange records the full solve
\* of the slot the Question was in.
C3_LeavesOnlySolved ==
    [][\A b \in DOMAIN Boards :
          (b \in DOMAIN Boards' /\ QuestionOffset' = QuestionOffset) =>
             \A id \in SlotIds(Boards[b]) \ SlotIds(Boards'[b]) :
                /\ Boards'[b].Solved = Boards[b].Solved + 1
                /\ Boards'[b].LastStateChange.ChangeType = "fullysolvequestion"
                /\ Boards[b].Slots[Boards'[b].LastStateChange.PayloadNum].id = id]_vars

\* A board with an empty player queue and every slot empty.
BoardEmpty(gb) == Len(gb.Queue) = 0 /\ \A i \in SlotIdx : gb.Slots[i] = Nil

\* C4: a step in which a board fully solves a Question (its Solved count
\* goes up) and is left with an empty player queue and every slot empty
\* sets Won on that board, whether the Question was the faller or stacked.
C4_WinOnFinalSolve ==
    [][\A b \in DOMAIN Boards :
          (/\ b \in DOMAIN Boards'
           /\ Boards'[b].Solved = Boards[b].Solved + 1
           /\ BoardEmpty(Boards'[b])) => Boards'[b].Won]_vars

\* The Questions of the round being played.
ThisRound(id) == id > QuestionOffset - TotalNumQuestions

\* The attacks of this round on their way from board 1 - d to board d,
\* oldest first: in d's attack queue, in d's channel, in the hand of the
\* Match loop, and in the router.
OnTheWay(d) ==
    LET inHand == IF mpc = "route" THEN <<mlocal.alph>> ELSE <<>>
        all == Boards[d].OppQueue \o Boards[d].oppQueueChan \o inHand
                   \o addToOppQueue
        Mine(q) == q.Whose = 1 - d /\ ThisRound(q.id)
    IN  SelectSeq(all, Mine)

Ids(qs) == [k \in 1 .. Len(qs) |-> qs[k].id]

\* C5: for each defender d, the attacks of this round already placed on
\* d's board by the drain, followed by those still in d's attack queue, in
\* d's channel and in the router, are exactly the Questions the attacker
\* sent, in the order it sent them: nothing is reordered, duplicated or
\* skipped on the way, and the drain places an earlier attack before a
\* later one.
C5_AttackOrder ==
    \A d \in DOMAIN Boards :
        SelectSeq(attacksPlaced[d], ThisRound) \o Ids(OnTheWay(d))
            = attacksSent[1 - d]

\* C5's case: both attacks of the board that owns two Questions were
\* placed on the other board.
C5_Witness == \E d \in DOMAIN Boards : Len(attacksPlaced[d]) >= 2

\* C6: a TryDestroy call that found the status Countdown is never left
\* waiting in gs.Stop(), so the call returns (and the Match loop exits).
C6_DestroyReturns == dpc.pc # "stop"

\* C7: no Guess call for a player of the match is ever left blocked on
\* the guess channel of the player's board.
C7_GuessReturns == \A p \in Players : guessCall[p] \notin {"blocked", "orphaned"}

\* C8: the Match loop is never blocked sending an attack to the full
\* channel of a board whose loop has left (from such a state no board's
\* exit is received any more and the status never returns to Countdown).
C8_RoundEnds ==
    ~(/\ mpc = "route"
      /\ bpc[1 - mlocal.alph.Whose] \in {"exit", "done"}
      /\ ~BoardHasRoom(mlocal.alph))

EmptySlots(gb) == Cardinality({i \in SlotIdx : gb.Slots[i] = Nil})

\* C9: a step in which the attack drain runs on a board (oppqueueReady is
\* reset) with more attacks in the attack queue than the board has empty
\* slots marks the board dead and records Lost.
C9_OverflowKills ==
    [][\A b \in DOMAIN Boards :
          (/\ b \in DOMAIN Boards'
           /\ QuestionOffset' = QuestionOffset
           /\ Boards[b].oppqueueReady /\ ~Boards'[b].oppqueueReady
           /\ Len(Boards[b].OppQueue) > EmptySlots(Boards[b])) =>
             /\ Boards'[b].Dead
             /\ Boards'[b].LastStateChange.ChangeType = "lost"]_vars

\* The answers of the alphagram dealt as Question id, in lower case, and
\* the player start() dealt it to.
FullAnswers(id) ==
    {ToLower(w) : w \in Shuffle(SearchResponse, randSeed)[id].Words}

OriginalOwner(id) == ((id - 1) % TotalNumQuestions) % NumPlayers

\* C10: a step in which a board fully solves a Question it owns (its
\* Solved count goes up and the solved slot held a Question whose owner is
\* the board) appends exactly that one Question to the router, with the
\* owner it was dealt to and with its answer map equal to its full answer
\* set.
C10_OwnerSolveEmits ==
    [][\A b \in DOMAIN Boards :
          (/\ b \in DOMAIN Boards'
           /\ Boards'[b].Solved = Boards[b].Solved + 1
           /\ Boards[b].Slots[Boards'[b].LastStateChange.PayloadNum].Whose = b) =>
             LET q == Boards[b].Slots[Boards'[b].LastStateChange.PayloadNum]
             IN  /\ addToOppQueue' = Append(addToOppQueue, q)
                 /\ q.Whose = OriginalOwner(q.id)
                 /\ AnswerMap'[q.id] = FullAnswers(q.id)]_vars

\* C10's case: the Question with two answers, solved by its owner with two
\* guesses, is in the router with both answers to give.
C10_Witness ==
    \E k \in 1 .. Len(addToOppQueue) :
        /\ addToOppQueue[k].id = 1
        /\ addToOppQueue[k].Whose = 0
        /\ Cardinality(AnswerMap[1]) = 2

\* A board whose loop is at its select with the mutex free: the states in
\* which the loop can take a guess.
AtSelect(b) == bpc[b] = "select" /\ Boards[b].mu = "free"

\* The slots of gb whose Question still has g among its answers.
HitSlots(gb, g) ==
    {i \in SlotIdx : gb.Slots[i] # Nil /\ g \in AnswerMap[gb.Slots[i].id]}

Lowest(S) == CHOOSE i \in S : \A j \in S : i <= j

\* C11: whenever a board can take a guess, for every word whose normal
\* form g is among the remaining answers of an occupied slot: the loop of
\* handleGuessEvent over the slots removes g from the answers of the
\* Question in the lowest such slot and changes no other answer map, and
\* the whole handler changes the answers of no other Question (the hit
\* Question has g removed, unless it is sent on, repopulated).
C11_OneSlotHit ==
    \A b \in DOMAIN Boards :
        AtSelect(b) =>
            \A evt \in GuessInputs :
                LET g == ToLower(TrimSpace(evt))
                    gb == Boards[b]
                    hits == HitSlots(gb, g)
                IN  hits # {} =>
                      LET q == gb.Slots[Lowest(hits)]
                          w == Walk(gb, g, 0, WalkStart(AnswerMap))
                          r == handleGuessEvent(gb, AnswerMap, evt)
                      IN  /\ w.am = [AnswerMap EXCEPT ![q.id] = @ \ {g}]
                          /\ \A id \in DOMAIN AnswerMap \ {q.id} :
                                 r.am[id] = AnswerMap[id]
                          /\ r.emit = Nil =>
                                 r.am[q.id] = AnswerMap[q.id] \ {g}

\* C11's case: the Question with two answers is in a slot with one of them
\* removed by a guess.
C11_Witness ==
    \E b \in DOMAIN Boards : \E i \in SlotIdx :
        /\ Boards[b].Slots[i].id = 1
        /\ Cardinality(AnswerMap[1]) = 1

\* g is a punishable mistake on gb: there is a faller, g is a remaining
\* answer of no occupied slot, and g has the letters of the faller.
PunishableMistake(gb, g) ==
    /\ gb.fallerPos # -1
    /\ gb.Slots[gb.fallerPos] # Nil
    /\ HitSlots(gb, g) = {}
    /\ alphagrammize(g) = ToLower(OrigQuestion(gb.Slots[gb.fallerPos]).Alphagram)

\* C12: whenever a board can take a guess, for every word that is a
\* punishable mistake, handleGuessEvent leaves the faller's Question in slot
\* topOfStack - 1 and empties the slot it fell in (if another), sets
\* fallerPos to -1 and the status to PieceAboutToDrop, records PieceLand,
\* arms the timer with TickDuration / 4, removes no answer, keeps Solved,
\* Dead and Won, and sends nothing to the router.
C12_Punishment ==
    \A b \in DOMAIN Boards :
        AtSelect(b) =>
            \A evt \in GuessInputs :
                LET g == ToLower(TrimSpace(evt))
                    gb == Boards[b]
                    r == handleGuessEvent(gb, AnswerMap, evt)
                    top == topOfStack(gb)
                IN  PunishableMistake(gb, g) =>
                      /\ top >= 1
                      /\ r.gb.Slots[top - 1] = gb.Slots[gb.fallerPos]
                      /\ \A i \in SlotIdx \ {top - 1, gb.fallerPos} :
                             r.gb.Slots[i] = gb.Slots[i]
                      /\ gb.fallerPos # top - 1 =>
                             r.gb.Slots[gb.fallerPos] = Nil
                      /\ r.gb.fallerPos = -1
                      /\ r.gb.status = "PieceAboutToDrop"
                      /\ r.gb.LastStateChange.ChangeType = "pieceland"
                      /\ r.gb.LastStateChange.PayloadNum = top - 1
                      /\ r.gb.Timer = "quarter"
                      /\ r.am = AnswerMap
                      /\ r.gb.Solved = gb.Solved
                      /\ r.gb.Dead = gb.Dead /\ r.gb.Won = gb.Won
                      /\ r.emit = Nil
                      /\ r.stateChanged

\* C12's case: a board that can take a guess has its faller above the slot
\* it would land in, and a word of the inputs is a punishable mistake.
C12_Witness ==
    \E b \in DOMAIN Boards : \E evt \in GuessInputs :
        /\ AtSelect(b) /\ SessionFree
        /\ PunishableMistake(Boards[b], ToLower(TrimSpace(evt)))
        /\ Boards[b].fallerPos < topOfStack(Boards[b]) - 1

\* A step in which a piece lands on board b: PieceLand is the recorded
\* change, and the faller has come to rest or a piece has left the queue.
Landing(b) ==
    /\ b \in DOMAIN Boards /\ b \in DOMAIN Boards'
    /\ QuestionOffset' = QuestionOffset
    /\ Boards'[b].LastStateChange.ChangeType = "pieceland"
    /\ Boards'[b].fallerPos = -1
    /\ \/ Boards[b].fallerPos # -1
       \/ Len(Boards'[b].Queue) < Len(Boards[b].Queue)

\* C13: in every step in which a piece lands on a board (by Tick or by the
\* punishment of a guess) and the board's loop goes on, the main timer is
\* armed with TickDuration if the recorded landing slot is 0 and with
\* TickDuration / 4 otherwise.
C13_LandingPause ==
    [][\A b \in Players :
          (Landing(b) /\ bpc'[b] # "exit") =>
              Boards'[b].Timer =
                  IF Boards'[b].LastStateChange.PayloadNum = 0
                  THEN "full" ELSE "quarter"]_vars

\* C13's case: a piece has landed at slot 0 and the long pause runs.
C13_Witness ==
    \E b \in DOMAIN Boards :
        /\ Boards[b].LastStateChange.ChangeType = "pieceland"
        /\ Boards[b].LastStateChange.PayloadNum = 0
        /\ Boards[b].Timer = "full"

\* Board b is the same board before and after the step (no round started).
SameBoard(b) ==
    /\ b \in DOMAIN Boards /\ b \in DOMAIN Boards'
    /\ QuestionOffset' = QuestionOffset

\* The step places attacks on board b.
Places(b) == SameBoard(b) /\ attacksPlaced'[b] # attacksPlaced[b]

\* The step is the firing of board b's attack timer.
AttackTimerFires(b) ==
    /\ bpc[b] = "select"
    /\ Boards[b].OppQueueTimer /\ ~Boards'[b].OppQueueTimer
    /\ Boards'[b].OppQueue = Boards[b].OppQueue

\* The step starts board b's attack timer.
AttackTimerStarts(b) ==
    SameBoard(b) /\ ~Boards[b].OppQueueTimer /\ Boards'[b].OppQueueTimer

\* The step takes an attack from board b's channel into its attack queue.
Arrives(b) ==
    SameBoard(b) /\ Len(Boards'[b].OppQueue) > Len(Boards[b].OppQueue)

\* C14: in every step, for every board: attacks are placed only by a Tick
\* taken with oppqueueReady set, the attacks placed are those that were in
\* the attack queue before the step, and the step takes nothing from the
\* board's channel; oppqueueReady becomes set only when the attack timer
\* fires; the attack timer is started only by the loop case that took an
\* attack into the empty queue (the queue then holds that one attack); an
\* arrival into the empty queue starts the timer, at once or after the send
\* on stateChange; and after a drain the queue is empty with oppqueueReady
\* clear and no timer running, so the next arrival is one into an empty
\* queue.
C14_AttackDelay ==
    [][\A b \in Players :
          /\ Places(b) =>
                /\ bpc[b] = "select" /\ Boards[b].Timer # "off"
                /\ Boards[b].oppqueueReady
                /\ attacksPlaced'[b]
                     = attacksPlaced[b] \o Ids(Boards[b].OppQueue)
                /\ Boards'[b].oppQueueChan = Boards[b].oppQueueChan
                /\ Boards'[b].OppQueue = <<>>
                /\ ~Boards'[b].oppqueueReady
                /\ ~Boards'[b].OppQueueTimer
          /\ (SameBoard(b) /\ ~Boards[b].oppqueueReady
                /\ Boards'[b].oppqueueReady) => AttackTimerFires(b)
          /\ AttackTimerStarts(b) =>
                /\ Len(Boards'[b].OppQueue) = 1
                /\ ~Boards'[b].oppqueueReady
                /\ \/ Arrives(b) /\ Boards[b].OppQueue = <<>>
                   \/ bpc[b] = "opp_notify" /\ blocal[b].flag
          /\ (Arrives(b) /\ Boards[b].OppQueue = <<>>) =>
                /\ ~Places(b)
                /\ \/ Boards'[b].OppQueueTimer
                   \/ bpc'[b] = "opp_notify" /\ blocal'[b].flag
          /\ (SameBoard(b) /\ bpc[b] = "opp_notify" /\ blocal[b].flag
                /\ bpc'[b] # "opp_notify") => Boards'[b].OppQueueTimer
          /\ Arrives(b) => ~Places(b)]_vars

\* C14's case: a board had attacks placed, and an attack that arrived after
\* the drain waits in the queue with the timer running.
C14_Witness ==
    \E b \in DOMAIN Boards :
        /\ attacksPlaced[b] # <<>>
        /\ Len(Boards[b].OppQueue) = 1
        /\ Boards[b].OppQueueTimer
        /\ ~Boards[b].oppqueueReady

\* The fields of a board that a snapshot shows, with the remaining answers
\* of the Questions in its slots.
Visible(gb) ==
    <<gb.Slots, gb.Queue, gb.OppQueue, gb.Solved, gb.Dead, gb.Won,
      gb.LastStateChange,
      [i \in SlotIdx |-> IF gb.Slots[i] = Nil THEN {}
                         ELSE AnswerMap[gb.Slots[i].id]]>>

VisibleAfter(gb) ==
    <<gb.Slots, gb.Queue, gb.OppQueue, gb.Solved, gb.Dead, gb.Won,
      gb.LastStateChange,
      [i \in SlotIdx |-> IF gb.Slots[i] = Nil THEN {}
                         ELSE AnswerMap'[gb.Slots[i].id]]>>

\* The step in which the Match loop, with every lock taken, sends the
\* snapshot for a notification and releases the locks.
SnapshotSent ==
    /\ Boards # <<>>
    /\ mpc' = "select"
    /\ \/ mpc = "select" /\ stateChange' < stateChange
       \/ mpc = "snap_lock"

\* C15: in every step, a board whose mutex the Match loop holds for a
\* snapshot keeps its snapshot-visible state; and the step that sends the
\* snapshot changes no board's visible state, is taken while no board's
\* goroutine holds its mutex, and releases every lock.
C15_SnapshotConsistent ==
    [][/\ \A b \in Players :
            (SameBoard(b) /\ Boards[b].mu = "mgr") =>
                VisibleAfter(Boards'[b]) = Visible(Boards[b])
       /\ SnapshotSent =>
            \A b \in Players :
                /\ Boards[b].mu # "board"
                /\ VisibleAfter(Boards'[b]) = Visible(Boards[b])
                /\ Boards'[b].mu = "free"]_vars

\* C15's case: the Match loop holds the mutex of a board whose main timer
\* is armed and whose loop is at its select.
C15_Witness ==
    \E b \in DOMAIN Boards :
        /\ Boards[b].mu = "mgr"
        /\ bpc[b] = "select"
        /\ Boards[b].Timer # "off"

\* C16: within a round the two boards are never both marked Won.
C16_OneWinner ==
    Boards # <<>> => ~(Boards[0].Won /\ Boards[1].Won)

\* The loop of board b runs or has left without its exit being received.
NotReported(b) == bpc[b] \notin {"none", "done"}

\* C17: in every step: the status leaves Playing only for Countdown, and
\* only in the step that receives the exit of a board while every other
\* board has reported before; the countdown timer does not fire, and so no
\* round is started, while a board has not reported; and after the step
\* the status is Playing if a board has not reported.
C17_CountdownAfterLastExit ==
    [][/\ (Status = "Playing" /\ Status' # "Playing") =>
            /\ Status' = "Countdown"
            /\ \E idx \in Players :
                  /\ bpc[idx] = "exit" /\ bpc'[idx] = "done"
                  /\ \A p \in Players \ {idx} : bpc[p] = "done" /\ exitedboards[p]
       /\ ((timer /\ ~timer') \/ QuestionOffset' # QuestionOffset) =>
            \A b \in Players : ~NotReported(b)
       /\ (\E b \in Players : NotReported(b)') => Status' = "Playing"]_vars

\* C17's case: a round was played, every board has reported and the status
\* is back to Countdown.
C17_Witness ==
    /\ Boards # <<>>
    /\ Status = "Countdown"
    /\ \A b \in Players : bpc[b] = "done"

\* The countdown timer fires and start() finds too few Questions left.
StartFails ==
    /\ timer /\ ~timer'
    /\ Status = "Countdown"
    /\ TooFewQuestions(QuestionOffset)

\* C18: a step in which the countdown timer fires with fewer than
\* TotalNumQuestions Questions left past QuestionOffset leaves
\* QuestionOffset, the boards and their loops as they are, sets the status
\* to PermanentlyOver, sends a snapshot with that status and ends Loop; and
\* no step makes the status Playing unless TotalNumQuestions Questions are
\* left, nor once the status is PermanentlyOver.
C18_FailedStart ==
    [][/\ StartFails =>
            /\ QuestionOffset' = QuestionOffset
            /\ Boards' = Boards
            /\ bpc' = bpc
            /\ AnswerMap' = AnswerMap
            /\ Status' = "PermanentlyOver"
            /\ stateOut'.Status = "PermanentlyOver"
            /\ mpc' = "done"
       /\ (Status # "Playing" /\ Status' = "Playing") =>
            /\ Status = "Countdown"
            /\ ~TooFewQuestions(QuestionOffset)]_vars

\* C18's case: after a round the start of the next one has failed.
C18_Witness ==
    /\ Boards # <<>>
    /\ TooFewQuestions(QuestionOffset)
    /\ Status = "PermanentlyOver"
    /\ stateOut.Status = "PermanentlyOver"
    /\ mpc = "done"

\* The step is a successful start(): the status goes from Countdown to
\* Playing.
StartsRound == Status = "Countdown" /\ Status' = "Playing"

\* The Questions a board holds in its slots, from the top, and those in
\* its queue followed by them.
InSlots(gb) ==
    SelectSeq([i \in 1 .. NumSlots |-> gb.Slots[i - 1]], LAMBDA q : q # Nil)

Holds(gb) == gb.Queue \o InSlots(gb)

\* A Question's identity is its position in the shuffled pool, from 1.
DealtPositions(boards) ==
    UNION {{Holds(boards[p])[j].id : j \in 1 .. Len(Holds(boards[p]))} :
            p \in DOMAIN boards}

\* C19: a successful start() happens with QuestionOffset a multiple of
\* TotalNumQuestions, puts on the boards exactly the Questions at the
\* positions QuestionOffset + 1 .. QuestionOffset + TotalNumQuestions of
\* the shuffled pool (counted from 1) and adds TotalNumQuestions to
\* QuestionOffset; no other step changes QuestionOffset.  As it starts at
\* 0, the k-th start deals the k-th slice and leaves k * TotalNumQuestions.
C19_DealtSlice ==
    [][/\ StartsRound =>
            /\ QuestionOffset % TotalNumQuestions = 0
            /\ DealtPositions(Boards') =
                 (QuestionOffset + 1) .. (QuestionOffset + TotalNumQuestions)
            /\ QuestionOffset' = QuestionOffset + TotalNumQuestions
       /\ ~StartsRound => QuestionOffset' = QuestionOffset]_vars

\* C19's case: the second round was started.
C19_Witness ==
    /\ QuestionOffset = 2 * TotalNumQuestions
    /\ Status = "Playing"

\* C20: after a successful start() board p holds, in the order of the
\* dealt slice, the Questions whose index in the slice has the parity of
\* p, each owned by p and with its full answer set: (T + 1) / 2 of them on
\* board 0 and T / 2 on board 1, for T = TotalNumQuestions.
C20_DealtByParity ==
    [][StartsRound =>
         \A p \in Players :
            LET qs == Holds(Boards'[p])
            IN  /\ Len(qs) = (TotalNumQuestions - p + 1) \div 2
                /\ \A j \in 1 .. Len(qs) :
                      /\ qs[j].id = QuestionOffset + p + 2 * (j - 1) + 1
                      /\ qs[j].Whose = p
                      /\ AnswerMap'[qs[j].id] = FullAnswers(qs[j].id)]_vars

\* C20's case: in the second round a board holds a Question of the second
\* slice that it owns.
C20_Witness ==
    \E p \in DOMAIN Boards : \E j \in 1 .. Len(Holds(Boards[p])) :
        /\ Holds(Boards[p])[j].id > TotalNumQuestions
        /\ Holds(Boards[p])[j].Whose = p

\* The step in which Loop returns.
LoopExits == mpc # "done" /\ mpc' = "done"

\* C21: the step in which the Match loop exits sets the status to
\* PermanentlyOver and sends a snapshot with that status, the first one to
\* carry it; once the loop has exited, no step changes the status, starts a
\* round (QuestionOffset, the boards' loops and the countdown timer stay as
\* they are), sends a snapshot or takes a notification from stateChange.
C21_LoopExitFinal ==
    [][/\ LoopExits =>
            /\ Status' = "PermanentlyOver"
            /\ stateOut.Status # "PermanentlyOver"
            /\ stateOut'.Status = "PermanentlyOver"
       /\ mpc = "done" =>
            /\ mpc' = "done"
            /\ Status' = Status
            /\ Status = "PermanentlyOver"
            /\ QuestionOffset' = QuestionOffset
            /\ timer' = timer
            /\ \A b \in Players : bpc'[b] = "select" => bpc[b] = "select"
            /\ stateOut' = stateOut
            /\ stateChange' >= stateChange]_vars

\* C21's case: Loop has exited with its final snapshot sent, and a caller
\* has still come to a board afterwards or before.
C21_Witness ==
    /\ mpc = "done"
    /\ Status = "PermanentlyOver"
    /\ stateOut.Status = "PermanentlyOver"
    /\ \E p \in Players : guessCall[p] = "blocked"

\* The Match loop is blocked for good: in a cyclic wait with a board, or
\* sending an attack to the full channel of a board whose loop has left.
MgrBlockedForGood ==
    \/ \E o \in DOMAIN Boards : MgrWaitsForBoard(o) /\ BoardWaitsForMgr(o)
    \/ /\ mpc = "route"
       /\ bpc[1 - mlocal.alph.Whose] \in {"exit", "done"}
       /\ Boards[1 - mlocal.alph.Whose].oppQueueChan # <<>>
       /\ ~BoardHasRoom(mlocal.alph)

\* C22: a board marked Dead or Won exits its loop and reports on
\* boardexited; in finite-run form: while its report has not been received,
\* the Match loop, the only receiver of boardexited, is never blocked for
\* good.
C22_FlaggedBoardReports ==
    \A b \in DOMAIN Boards :
        ((Boards[b].Dead \/ Boards[b].Won) /\ bpc[b] # "done") => ~MgrBlockedForGood

\* C23: every notification sent on stateChange is followed by a snapshot
\* serialized after it; in finite-run form: while a notification waits in
\* stateChange, or the Match loop has taken one and not yet sent its
\* snapshot, the Match loop is never blocked for good.
C23_NotificationAnswered ==
    (stateChange > 0 \/ mpc = "snap_lock") => ~MgrBlockedForGood

\* C24: while the status is Playing or PermanentlyOver, TryDestroy returns
\* its error, and no step lets a TryDestroy call past the status test: the
\* caller does not come to gs.Stop() or to the Quit() of a board.  (The
\* refused call itself changes nothing: it is a step that leaves every
\* variable as it is.)
C24_DestroyRefused ==
    [][/\ Status \in {"Playing", "PermanentlyOver"} => CannotDestroy(Status)
       /\ Status \in {"Playing", "PermanentlyOver"} => dpc' = dpc
       /\ dpc' # dpc => (Status = "Countdown" /\ dpc.pc = "idle")]_vars

\* C24's case: TryDestroy can be called (the session manager's mutex is
\* free) after the start of a round has failed.
C24_Witness ==
    /\ Status = "PermanentlyOver"
    /\ SessionFree
    /\ Boards # <<>>

\* C25: Guess for a user name that is not in gs.Players finds no board and
\* returns its error: in every state, the lookup of a name that none of the
\* match's boards belongs to selects none of the boards, so that nothing is
\* sent to a guess channel and the call is a step that leaves the match and
\* every board as they are.
C25_UnknownPlayerRefused ==
    \A username \in Usernames :
        (\A i \in DOMAIN Boards : PlayerName(i) # username) =>
            PlayerIndex(username) \notin DOMAIN Boards

\* C25's case: a round is running, both boards' loops are at their select
\* and the session manager's mutex is free, so that the Guess of a
\* stranger can be called.
C25_Witness ==
    /\ Status = "Playing"
    /\ SessionFree
    /\ \A b \in Players : bpc[b] = "select"
    /\ \E username \in Usernames : \A i \in Players : PlayerName(i) # username

\* C27: Guess for a player of the match never panics.
C27_GuessNeverPanics ==
    \A username \in Players : guessCall[PlayerIndex(username)] # "panicked"

\* The attacks on their way to board b or waiting in its attack queue: in
\* the router, in the board's channel, in OppQueue.
PendingAttacks(b) ==
    Len(SelectSeq(addToOppQueue, LAMBDA q : 1 - q.Whose = b))
        + Len(Boards[b].oppQueueChan) + Len(Boards[b].OppQueue)

\* C26: the win check does not depend on the attacks: every step in which
\* a board solves a Question and is left with an empty player queue and no
\* occupied slot, while attacks are pending for it, marks the board Won.
C26_WinIgnoresAttacks ==
    [][\A b \in Players :
          (/\ SameBoard(b)
           /\ PendingAttacks(b) > 0
           /\ Boards'[b].Solved = Boards[b].Solved + 1
           /\ BoardEmpty(Boards'[b])) => Boards'[b].Won]_vars

\* C28: on every board, in every state: fallerPos is -1 or a slot index;
\* and if it is a slot index, that slot holds a Question, every slot above
\* it (of lower index) is empty and fallerPos < topOfStack - 1.
C28_FallerAboveStack ==
    \A b \in DOMAIN Boards :
        LET gb == Boards[b]
        IN  /\ gb.fallerPos \in -1 .. NumSlots - 1
            /\ gb.fallerPos # -1 =>
                  /\ gb.Slots[gb.fallerPos] # Nil
                  /\ \A i \in SlotIdx : i < gb.fallerPos => gb.Slots[i] = Nil
                  /\ gb.fallerPos < topOfStack(gb) - 1

\* C28's case: a later piece of a board is in flight: the board has solved
\* a Question before and its loop is at its select.
C28_Witness ==
    \E b \in DOMAIN Boards :
        /\ Boards[b].fallerPos # -1
        /\ Boards[b].Solved > 0
        /\ bpc[b] = "select"

\* handleGuessEvent(evt) on gb comes to its punishment: the loop over the
\* slots ends with partiallySolved false and madePunishableMistake true.
ComesToPunishment(gb, evt) ==
    LET w == Walk(gb, ToLower(TrimSpace(evt)), 0, WalkStart(AnswerMap))
    IN  ~w.partiallySolved /\ w.madePunishableMistake

\* C29: whenever a board can take a guess, for every word: if
\* handleGuessEvent comes to its punishment, there is a faller and
\* topOfStack is at least 1, so the branch for topOfStack == 0 is not
\* taken; and for no word does handleGuessEvent mark the board Dead.
C29_PunishmentNeverKills ==
    \A b \in DOMAIN Boards :
        AtSelect(b) =>
            \A evt \in GuessInputs :
                LET gb == Boards[b]
                    r == handleGuessEvent(gb, AnswerMap, evt)
                IN  /\ ComesToPunishment(gb, evt) =>
                          /\ gb.fallerPos # -1
                          /\ topOfStack(gb) >= 1
                    /\ ~gb.Dead => ~r.gb.Dead

\* C29's case: a board that has solved a Question before can take a guess
\* that comes to the punishment.
C29_Witness ==
    \E b \in DOMAIN Boards : \E evt \in GuessInputs :
        /\ AtSelect(b) /\ SessionFree
        /\ Boards[b].Solved > 0
        /\ ComesToPunishment(Boards[b], evt)

\* Board b can take a tick that finds attacks ready to land: its loop is
\* at its select with the main timer armed, the status is PieceAboutToDrop
\* or PlayerQueueEmpty, oppqueueReady is set and OppQueue is not empty.
DrainTickDue(b) ==
    /\ AtSelect(b)
    /\ Boards[b].Timer # "off"
    /\ Boards[b].status \in {"PieceAboutToDrop", "PlayerQueueEmpty"}
    /\ Boards[b].oppqueueReady
    /\ Boards[b].OppQueue # <<>>

\* What every such tick does, whether or not the board dies: OppQueue is
\* emptied and its Questions (as many as the slots can hold) are in the
\* bottom slots in the order of the queue, oppqueueReady is cleared, and no
\* piece is released: Queue, fallerPos (-1) and status are as before.
Drained(gb, t) ==
    LET n == Len(gb.OppQueue)
    IN  /\ t.OppQueue = <<>>
        /\ \A k \in 1 .. n :
               n - k < NumSlots => t.Slots[NumSlots - 1 - (n - k)] = gb.OppQueue[k]
        /\ ~t.oppqueueReady
        /\ t.Queue = gb.Queue
        /\ gb.fallerPos = -1 /\ t.fallerPos = -1
        /\ t.status = gb.status

\* C30 as stated: every tick that finds attacks ready to land drains them
\* and records StackRise with the number of attacks that were queued.
C30_DrainTick ==
    \A b \in DOMAIN Boards :
        DrainTickDue(b) =>
            LET gb == Boards[b]
                t == Tick(gb)
            IN  /\ Drained(gb, t)
                /\ t.LastStateChange = StateChange("stackrise", Len(gb.OppQueue), 0)

\* C30 amended: every tick that finds attacks ready to land drains them;
\* if the drain has marked the board Dead, Lost is recorded and no timer is
\* armed; otherwise StackRise is recorded with the number of attacks that
\* were queued and the timer is armed with TickDuration.
C30_DrainTickOrLost ==
    \A b \in DOMAIN Boards :
        DrainTickDue(b) =>
            LET gb == Boards[b]
                t == Tick(gb)
            IN  /\ Drained(gb, t)
                /\ IF t.Dead
                   THEN /\ t.LastStateChange = StateChange("lost", 0, 0)
                        /\ t.Timer = "off"
                   ELSE /\ t.LastStateChange =
                               StateChange("stackrise", Len(gb.OppQueue), 0)
                        /\ t.Timer = "full"

\* C30's case: a tick is due that drains two attacks and marks the board
\* Dead.
C30_Witness ==
    \E b \in DOMAIN Boards :
        /\ DrainTickDue(b)
        /\ Len(Boards[b].OppQueue) = 2
        /\ Tick(Boards[b]).Dead

\* g is a partial hit on gb: g is a remaining answer of an occupied slot,
\* and the Question of the lowest such slot has another answer left.
PartialHit(gb, g) ==
    /\ HitSlots(gb, g) # {}
    /\ AnswerMap[gb.Slots[Lowest(HitSlots(gb, g))].id] # {g}

\* C31: whenever a board can take a guess, for every word that is a
\* partial hit: handleGuessEvent returns stateChanged = true, sends nothing
\* to the router and leaves every field of the board as it is (slots,
\* fallerPos, status, Queue, OppQueue, Solved, Dead, Won, the main timer),
\* and the answer maps differ only by the answer removed.
C31_PartialHitOnly ==
    \A b \in DOMAIN Boards :
        AtSelect(b) =>
            \A evt \in GuessInputs :
                LET g == ToLower(TrimSpace(evt))
                    gb == Boards[b]
                    r == handleGuessEvent(gb, AnswerMap, evt)
                IN  PartialHit(gb, g) =>
                      /\ r.gb = gb
                      /\ r.emit = Nil
                      /\ r.stateChanged
                      /\ r.am = [AnswerMap EXCEPT
                                   ![gb.Slots[Lowest(HitSlots(gb, g))].id] = @ \ {g}]

\* C31's case: a board whose faller has two answers left can take a guess,
\* and a word of the inputs is one of the two.
C31_Witness ==
    \E b \in DOMAIN Boards : \E evt \in GuessInputs :
        /\ AtSelect(b) /\ SessionFree
        /\ Boards[b].fallerPos # -1
        /\ PartialHit(Boards[b], ToLower(TrimSpace(evt)))

\* g is the last remaining answer of the Question in the lowest slot of gb
\* that has g among its answers: the guess fully solves that Question.
FullHit(gb, g) ==
    /\ HitSlots(gb, g) # {}
    /\ AnswerMap[gb.Slots[Lowest(HitSlots(gb, g))].id] = {g}

\* The ids in a sequence of ids.
IdSet(ids) == {ids[k] : k \in 1 .. Len(ids)}

\* C32: (a) whenever a board can take a guess, for every word:
\* handleGuessEvent sends a Question to the router if and only if the word
\* fully solves a Question that the board owns, and it sends that Question;
\* (b) the Questions a board has sent in the round are all different and
\* all its own; (c) the attacks of the round waiting in a board's channel
\* or attack queue, and those in its slots, are owned by the other board
\* and were sent by it; (d) a Question a board has sent is not in its own
\* slots, player queue, channel or attack queue.
C32_AttackOnlyOwnSolves ==
    \A b \in DOMAIN Boards :
        LET gb == Boards[b]
            sent == attacksSent[b]
            waiting == {q \in {gb.oppQueueChan[k] : k \in 1 .. Len(gb.oppQueueChan)}
                               \cup {gb.OppQueue[k] : k \in 1 .. Len(gb.OppQueue)} :
                          ThisRound(q.id)}
            inSlots == {gb.Slots[i] : i \in {j \in SlotIdx :
                            gb.Slots[j] # Nil /\ ThisRound(gb.Slots[j].id)}}
        IN  /\ AtSelect(b) =>
                  \A evt \in GuessInputs :
                      LET g == ToLower(TrimSpace(evt))
                          r == handleGuessEvent(gb, AnswerMap, evt)
                          q == gb.Slots[Lowest(HitSlots(gb, g))]
                      IN  /\ r.emit # Nil <=> (FullHit(gb, g) /\ q.Whose = b)
                          /\ r.emit # Nil => r.emit = q
            /\ \A k, l \in 1 .. Len(sent) : sent[k] = sent[l] => k = l
            /\ \A k \in 1 .. Len(sent) : OriginalOwner(sent[k]) = b
            /\ \A q \in waiting :
                  q.Whose = 1 - b /\ q.id \in IdSet(attacksSent[1 - b])
            /\ \A q \in inSlots :
                  q.Whose # b => q.id \in IdSet(attacksSent[1 - b])
            /\ \A q \in inSlots \cup waiting
                        \cup {gb.Queue[k] : k \in 1 .. Len(gb.Queue)} :
                  q.id \notin IdSet(sent)

\* C32's case: a board can take a guess that fully solves an attack, a
\* Question of the other board, in one of its slots.
C32_Witness ==
    \E b \in DOMAIN Boards : \E evt \in GuessInputs :
        /\ AtSelect(b) /\ SessionFree
        /\ FullHit(Boards[b], ToLower(TrimSpace(evt)))
        /\ Boards[b].Slots[Lowest(HitSlots(Boards[b], ToLower(TrimSpace(evt))))].Whose = 1 - b

\* C33: in every step within a round, no board's player queue grows, and
\* a board whose status is PlayerQueueEmpty keeps that status; and in every
\* state such a board has an empty player queue and no faller.
C33_QueueEmptyAbsorbing ==
    [][\A b \in Players :
          /\ SameBoard(b) =>
                /\ Len(Boards'[b].Queue) <= Len(Boards[b].Queue)
                /\ Boards[b].status = "PlayerQueueEmpty" =>
                       Boards'[b].status = "PlayerQueueEmpty"
          /\ (b \in DOMAIN Boards /\ Boards[b].status = "PlayerQueueEmpty") =>
                /\ Boards[b].Queue = <<>>
                /\ Boards[b].fallerPos = -1]_vars

\* C33's case: a board in status PlayerQueueEmpty with a piece in a slot
\* and an attack in its attack queue can take a tick or a guess.
C33_Witness ==
    \E b \in DOMAIN Boards :
        /\ AtSelect(b)
        /\ Boards[b].status = "PlayerQueueEmpty"
        /\ Boards[b].OppQueue # <<>>
        /\ \E i \in SlotIdx : Boards[b].Slots[i] # Nil

\* C34: whenever a board can take a guess, for every word that is one of
\* the answers of the faller's Question (given already or not):
\* handleGuessEvent does not come to its punishment, and if the answer was
\* given before (it is no longer among the remaining ones), the board is
\* left as it is.
C34_ValidAnswerNotPunished ==
    \A b \in DOMAIN Boards :
        AtSelect(b) =>
            \A evt \in GuessInputs :
                LET g == ToLower(TrimSpace(evt))
                    gb == Boards[b]
                    r == handleGuessEvent(gb, AnswerMap, evt)
                IN  (/\ gb.fallerPos # -1
                     /\ gb.Slots[gb.fallerPos] # Nil
                     /\ g \in FullAnswers(gb.Slots[gb.fallerPos].id)) =>
                       /\ ~ComesToPunishment(gb, evt)
                       /\ g \notin AnswerMap[gb.Slots[gb.fallerPos].id] => r.gb = gb

\* Board b can take a tick: its loop is at its select with the main timer
\* armed.
TickDue(b) == AtSelect(b) /\ Boards[b].Timer # "off"

\* Tick on gb has to release a piece while slot 0 is occupied: the status
\* is PieceAboutToDrop or PlayerQueueEmpty, no drain runs, the player queue
\* is not empty and slot 0 holds a Question.
ReleaseOntoFullColumn(gb) ==
    /\ gb.status \in {"PieceAboutToDrop", "PlayerQueueEmpty"}
    /\ ~(gb.oppqueueReady /\ gb.OppQueue # <<>>)
    /\ gb.Queue # <<>>
    /\ gb.Slots[0] # Nil

\* C35: in every step within a round in which a board becomes Dead, the
\* board was due a tick that drains attacks or that has to release a piece
\* while slot 0 is occupied.  And whenever a board is due a tick: in status
\* PieceDropping topOfStack is at least 1 and the tick does not mark the
\* board Dead (neither loss branch of that status is taken); and with every
\* slot occupied, an empty player queue and no drain to run, the tick does
\* not mark the board Dead.
C35_DeathOnlyByReleaseOrDrain ==
    [][\A b \in Players :
          /\ (SameBoard(b) /\ ~Boards[b].Dead /\ Boards'[b].Dead) =>
                /\ TickDue(b)
                /\ Boards'[b].Slots = Tick(Boards[b]).Slots
                /\ \/ ReleaseOntoFullColumn(Boards[b])
                   \/ /\ Boards[b].status \in {"PieceAboutToDrop", "PlayerQueueEmpty"}
                      /\ Boards[b].oppqueueReady
                      /\ Boards[b].OppQueue # <<>>
          /\ (b \in DOMAIN Boards /\ TickDue(b)) =>
                /\ Boards[b].status = "PieceDropping" =>
                       /\ topOfStack(Boards[b]) >= 1
                       /\ ~Tick(Boards[b]).Dead
                /\ (/\ \A i \in SlotIdx : Boards[b].Slots[i] # Nil
                    /\ Boards[b].Queue = <<>>
                    /\ ~(Boards[b].oppqueueReady /\ Boards[b].OppQueue # <<>>)) =>
                       ~Tick(Boards[b]).Dead]_vars

\* C35's case: a board is due a tick that has to release a piece while
\* slot 0 is occupied.
C35_Witness ==
    \E b \in DOMAIN Boards :
        /\ TickDue(b)
        /\ ~Boards[b].Dead
        /\ ReleaseOntoFullColumn(Boards[b])

\* C36: on every board of a round, in every state: in status
\* PieceAboutToDrop or PlayerQueueEmpty fallerPos is -1, and in status
\* PieceDropping fallerPos is at least 0; so whenever Tick would run the
\* attack drain there is no faller, before the drain or after it.
C36_NoDrainInFlight ==
    \A b \in DOMAIN Boards :
        LET gb == Boards[b]
        IN  /\ gb.status \in {"PieceAboutToDrop", "PlayerQueueEmpty"} => gb.fallerPos = -1
            /\ gb.status = "PieceDropping" => gb.fallerPos >= 0
            /\ DrainRuns(gb) => (gb.fallerPos = -1 /\ Tick(gb).fallerPos = -1)

\* C36's case: a board is due a tick that drains attacks onto a stack that
\* is not empty, while a piece waits in the player queue.
C36_Witness ==
    \E b \in DOMAIN Boards :
        /\ TickDue(b)
        /\ DrainRuns(Boards[b])
        /\ Boards[b].Queue # <<>>
        /\ Boards[b].Slots[NumSlots - 1] # Nil

\* C37: on every board, a set ready flag means a non-empty attack queue,
\* so the branch of Tick for a ready flag with an empty attack queue is
\* never taken, and the delay timer is pending (and so fires) only while
\* the attack queue is non-empty; this covers the board that waits to
\* notify the manager of an arrival before it starts the timer.
C37_ReadyImpliesAttacks ==
    \A b \in DOMAIN Boards :
        /\ Boards[b].oppqueueReady => Boards[b].OppQueue # <<>>
        /\ Boards[b].OppQueueTimer => Boards[b].OppQueue # <<>>
        /\ (bpc[b] = "opp_notify" /\ blocal[b].flag)
              => Boards[b].OppQueue # <<>>
        /\ TickDue(b) =>
              ~(Boards[b].oppqueueReady /\ Boards[b].OppQueue = <<>>)

\* A board whose ready flag is set with an attack waiting when a tick is
\* due, while the other board's delay timer is pending.
C37_Witness ==
    \E b \in DOMAIN Boards : \E o \in DOMAIN Boards :
        /\ b # o
        /\ TickDue(b)
        /\ Boards[b].oppqueueReady
        /\ Boards[b].OppQueue # <<>>
        /\ Boards[o].OppQueueTimer

\* The places where the Question id is: positions of the boards' player
\* queues, slots, attack queues and attack channels, of the router
\* channel, and the manager's hand between its receive and its send.
WhereIs(id) ==
    UNION {
        {<<"Queue", b, k>> :
            k \in {j \in 1 .. Len(Boards[b].Queue) : Boards[b].Queue[j].id = id}}
        \cup {<<"Slots", b, i>> :
            i \in {j \in SlotIdx : Boards[b].Slots[j].id = id}}
        \cup {<<"OppQueue", b, k>> :
            k \in {j \in 1 .. Len(Boards[b].OppQueue) :
                       Boards[b].OppQueue[j].id = id}}
        \cup {<<"oppQueueChan", b, k>> :
            k \in {j \in 1 .. Len(Boards[b].oppQueueChan) :
                       Boards[b].oppQueueChan[j].id = id}}
        : b \in DOMAIN Boards}
    \cup {<<"addToOppQueue", k>> :
            k \in {j \in 1 .. Len(addToOppQueue) : addToOppQueue[j].id = id}}
    \cup (IF mpc = "route" /\ mlocal.alph.id = id THEN {<<"route">>} ELSE {})

\* The Questions whose answers_remaining differ between two answer maps.
Mutated(am, bm) == {id \in DOMAIN am : am[id] # bm[id]}

\* C38: within a round every Question is in at most one place among the
\* boards' player queues, slots, attack queues and attack channels and
\* the router, and a guess on a board changes the answers_remaining of
\* Questions of that board's slots only, which are in no other slot and
\* on no other board.
C38_OnePlace ==
    /\ \A id \in DOMAIN AnswerMap :
          ThisRound(id) => Cardinality(WhereIs(id)) <= 1
    /\ \A b \in DOMAIN Boards :
          AtSelect(b) =>
            \A evt \in GuessInputs :
                LET r == handleGuessEvent(Boards[b], AnswerMap, evt)
                IN  \A id \in Mutated(AnswerMap, r.am) :
                      \E i \in SlotIdx : WhereIs(id) = {<<"Slots", b, i>>}

\* A guess that changes the answers_remaining of a Question that came
\* over from the other board can be taken, while the other board has
\* Questions in its slots and another attack is on its way or waiting.
C38_Witness ==
    \E b \in DOMAIN Boards : \E o \in DOMAIN Boards :
        /\ b # o
        /\ AtSelect(b)
        /\ \E evt \in GuessInputs :
              \E id \in Mutated(AnswerMap,
                                handleGuessEvent(Boards[b], AnswerMap, evt).am) :
                  OriginalOwner(id) = o /\ ThisRound(id)
        /\ SlotIds(Boards[o]) # {}
        /\ OnTheWay(b) # <<>>

\* C39: no board has Dead and Won both set, in any reachable state of a
\* round; nor does a guess set Won on a board that is Dead or a Tick set
\* Dead on a board that has Won, whenever either can run.
C39_NotDeadAndWon ==
    \A b \in DOMAIN Boards :
        /\ ~(Boards[b].Dead /\ Boards[b].Won)
        /\ AtSelect(b) => ~Boards[b].Dead /\ ~Boards[b].Won

\* One board is Dead and the other one has Won.
C39_Witness ==
    \E b \in DOMAIN Boards : \E o \in DOMAIN Boards :
        Boards[b].Dead /\ Boards[o].Won

\* C40: Join never adds a player to a session whose game has been made:
\* after any sequence of Seek, Join, Unseek and Leave, every GameSession
\* has at most two players, and every GameStateManager whose Loop still
\* runs is the GameManager of its session (none was replaced by a new one).
C40_JoinOnlyOpenSeek ==
    /\ \A id \in DOMAIN Sessions : Len(Sessions[id].Players) <= 2
    /\ \A m \in DOMAIN managers :
          managers[m].running =>
            \E id \in DOMAIN Sessions : Sessions[id].GameManager = m

====
